---- MODULE Spec2Model ----
(***************************************************************************)
(* A model of the session.js-client Python port.                           *)
(*                                                                         *)
(*   session_py.instance.Session  : identity (set_mnemonic), send_message  *)
(*   session_py.polling.Poller    : start / stop / _poll_loop / poll       *)
(*   session_py_client.Session    : the simplified client facade           *)
(*                                                                         *)
(* Optional values (Python None) are sequences: <<>> is None, <<v>> is v.  *)
(* Byte strings are sequences of 0..255, text is a sequence of one-        *)
(* character strings.                                                      *)
(***************************************************************************)
EXTENDS Integers, Sequences, FiniteSets, TLC

VARIABLES
    \* ---- session_py.instance.Session (session.py:34-49)
    is_authorized,      \* Session.is_authorized
    keypair,            \* Session.keypair        (optional)
    session_id,         \* Session.session_id     (text, <<>> when None)
    mnemonic,           \* Session.mnemonic       (optional)
    our_swarm,          \* Session.our_swarm is cached
    storage,            \* Session.storage: key -> optional value
    sm_task,            \* a set_mnemonic call suspended in `await storage.set`
    last_call,          \* the most recently finished API call and how it ended
    transport_calls,    \* number of transport requests issued so far
    \* ---- session_py.polling.Poller (poller.py:28-38)
    polling,            \* Poller.polling
    task,               \* Poller.task (optional: the number of the loop task)
    ex,                 \* the poll() executions: the loop task's and a direct call's
    running,            \* the execution that holds the event loop ("none": all suspended)
    loop_calls,         \* transport requests issued by loop tasks
    polls,              \* poll() executions begun, per executor
    \* ---- the swarm holding our messages
    srv_log,            \* namespace -> hashes stored, in server order
    srv_kind,           \* hash -> what the stored message decrypts to
    \* ---- session_py_client.Session (session_py_client/session.py:21-35)
    c_mnemonic,         \* per client session: Session.mnemonic   (optional)
    c_keypair,          \* per client session: Session.keypair    (optional)
    c_session_id,       \* per client session: Session.session_id (text)
    c_storage,          \* per client session: storage["mnemonic"] (optional)
    c_network,          \* per client session: number of requests network.on_request saw
    c_last_call,        \* the most recently finished client API call
    \* ---- swarm resolution and the store path (swarms.py, store_message.py)
    snodes,             \* Session.snodes: the cached snode pool (optional)
    our_swarms,         \* Session.our_swarms (optional)
    calls,              \* per calling task: the locals of its call in progress
    \* ---- session_py.storage.FileStorage (file.py:53-83)
    unsaved,            \* keys whose value in _data the file does not hold
    \* ---- the storage classes (storage/memory.py, storage/file.py, in_memory.py)
    kv,                 \* one storage object of each class, and the last call on them
    \* ---- the message functions (crypto/message_*.py of both packages)
    crypto,             \* the arguments and results of the calls made so far
    \* ---- polling.Poller (src/polling/poller.py:22-26) and its tasks
    sp,                 \* _running, _task, the loop tasks, the suspended stop_polling calls
    \* ---- the pollers of a session_py_client.Session (session.py:35, 126-139)
    cp                  \* Session.pollers and the loop tasks add_poller created

identityVars == <<is_authorized, keypair, session_id, mnemonic, sm_task>>
pollerVars == <<polling, task, ex, running, loop_calls, polls, our_swarm>>
serverVars == <<srv_log, srv_kind>>
clientVars == <<c_mnemonic, c_keypair, c_session_id, c_storage, c_network, c_last_call>>
resolverVars == <<snodes, our_swarms, calls>>
loopVars == <<sp, cp>>
unitVars == <<kv, crypto, loopVars>>
vars == <<identityVars, storage, last_call, transport_calls, pollerVars, serverVars,
          clientVars, resolverVars, unsaved, unitVars>>

None == <<>>
Some(v) == <<v>>

\* ------------------------------------------------------------------ bounds
\* Number of transport requests after which the environment issues no more.
MaxTransport == 3
\* Number of distinct outcomes of the random key generator.
MaxEntropy == 2
\* Number of requests a client session's network double records.
MaxClientRequests == 2
\* messages the swarm stores for us
MaxMsgs == 2
\* runs of poll() a polling task makes, and runs the application awaits itself
MaxLoopPolls == 2
MaxManualPolls == 1
\* callbacks registered with Poller.on_message
NumCallbacks == 2
\* snodes the seeds know
NumSnodes == 4
MaxList == 2
\* set_mnemonic calls suspended at the same time.
MaxOverlap == 2
\* loop tasks created over the life of a poller or a client session
MaxTasks == 3
\* stop_polling calls suspended at the same time
MaxStops == 2

\* ------------------------------------------------------------ codec (utils)
HexDigits == <<"0","1","2","3","4","5","6","7","8","9","a","b","c","d","e","f">>

RECURSIVE bytes_to_hex(_)
\* session_py/utils.py bytes_to_hex: bytes.hex(), two lowercase digits a byte.
bytes_to_hex(data) ==
    IF data = <<>> THEN <<>>
    ELSE <<HexDigits[(Head(data) \div 16) + 1], HexDigits[(Head(data) % 16) + 1]>>
         \o bytes_to_hex(Tail(data))

\* session_py_client/utils.py Uint8ArrayToHex: bytes(data).hex().
Uint8ArrayToHex(data) == bytes_to_hex(data)

HexChars == {"0","1","2","3","4","5","6","7","8","9",
             "a","b","c","d","e","f","A","B","C","D","E","F"}

\* session_py/utils.py is_hex.
is_hex(s) == (\A i \in 1..Len(s) : s[i] \in HexChars) /\ Len(s) % 2 = 0

RECURSIVE replace_05(_)
\* str.replace('05', ''): every non-overlapping occurrence, left to right.
replace_05(s) ==
    IF Len(s) < 2 THEN s
    ELSE IF s[1] = "0" /\ s[2] = "5" THEN replace_05(SubSeq(s, 3, Len(s)))
    ELSE <<s[1]>> \o replace_05(Tail(s))

startswith_05(s) == Len(s) >= 2 /\ s[1] = "0" /\ s[2] = "5"

\* ------------------------------------------------------------ key material
\* Size of the word list (english_words.json).
NumWords == 1626
\* Key and seed length in bytes.
KeyLen == 32
\* A token that matches no word prefix of the list.
UnknownWord == 0 - 1

Repeat(x, k) == [i \in 1..k |-> x]

\* The mnemonics callers pass: sequences of word tokens (a token is the index of
\* the word its first three characters select, or UnknownWord).
Mnemonics ==
    { Repeat(1337, 13),                       \* 13 known words
      Repeat(42, 13),                         \* another identity
      <<1, 2, 3>> \o Repeat(7, 10),           \* mixed words
      Repeat(42, 12),                         \* 12 words: wrong count
      Repeat(UnknownWord, 13),                \* unknown word
      Repeat(1625, 2) \o <<1624>> \o Repeat(5, 10) }  \* first group exceeds 32 bits

\* one three-word group of decode_mnemonic (mnemonic.py:74-77):
\*   x = w1 + n * ((n - w1 + w2) % n) + n * n * ((n - w2 + w3) % n)
\* kept as [hi, lo] with x = hi * 65536 + lo, because x can pass 2^31
\* (n * n = 40 * 65536 + 22436).
group_value(w1, w2, w3) ==
    LET a == (NumWords - w1 + w2) % NumWords
        b == (NumWords - w2 + w3) % NumWords
        t == w1 + NumWords * a + 22436 * b
    IN  [hi |-> (t \div 65536) + 40 * b, lo |-> t % 65536]

\* f"{x:08x}" has more than 8 digits, so _swap_endian_4byte raises ValueError.
group_overflows(x) == x.hi >= 65536

\* little-endian 4 bytes of x (f"{x:08x}" swapped by _swap_endian_4byte).
le4(x) == << x.lo % 256, x.lo \div 256, x.hi % 256, x.hi \div 256 >>

\* decode_mnemonic raises ValueError: a word that is not in the list
\* (list.index), or a group whose value needs more than 8 hex digits
\* (_swap_endian_4byte: "Invalid input length"), or a word count decode refuses.
decode_raises(wlist0) ==
    LET wlist == IF Len(wlist0) = 13 THEN SubSeq(wlist0, 1, 12) ELSE wlist0
    IN  \/ Len(wlist0) < 12
        \/ Len(wlist0) % 3 = 2
        \/ \E i \in 1..Len(wlist) : wlist[i] = UnknownWord
        \/ \E g \in 0..((Len(wlist) \div 3) - 1) :
              group_overflows(group_value(wlist[3*g+1], wlist[3*g+2], wlist[3*g+3]))

RECURSIVE decode_groups(_)
decode_groups(wlist) ==
    IF Len(wlist) < 3 THEN <<>>
    ELSE le4(group_value(wlist[1], wlist[2], wlist[3]))
         \o decode_groups(SubSeq(wlist, 4, Len(wlist)))

\* decode_mnemonic (session_py/crypto/mnemonic.py:47-89): the decoded bytes
\* (the function returns their hex; the hex is re-read by mnemonic_to_seed).
decode_mnemonic(wlist0) ==
    decode_groups(IF Len(wlist0) = 13 THEN SubSeq(wlist0, 1, 12) ELSE wlist0)

\* mnemonic_to_seed (mnemonic.py:124-136): pad the hex with '0' to 64 digits.
mnemonic_to_seed(m) ==
    LET out == decode_mnemonic(m)
    IN  IF Len(out) = KeyLen THEN out
        ELSE SubSeq(out \o Repeat(0, 16), 1, KeyLen)

RECURSIVE digest(_)
\* Stand-in for SHA-512 / curve arithmetic: a deterministic mixing of the bytes.
digest(b) == IF b = <<>> THEN 7 ELSE (digest(Tail(b)) * 31 + Head(b) + 1) % 251

\* to_keypair (mnemonic.py:94-121): both key pairs are functions of the seed.
to_keypair(seed) ==
    LET d == digest(seed)
    IN  [ ed25519 |-> [pub_key |-> [i \in 1..KeyLen |-> (d * 3 + i) % 256]],
          x25519  |-> [pub_key |-> [i \in 1..KeyLen |-> (d * 5 + 2 * i + 1) % 256]] ]

\* generate_keypair (session_py_client/crypto/message_encrypt.py:50-67):
\* PrivateKey.generate() and SigningKey.generate(), two independent random keys.
generate_keypair(rx, re) ==
    [ x25519  |-> [publicKey |-> [i \in 1..KeyLen |-> (rx * 17 + i) % 256]],
      ed25519 |-> [publicKey |-> [i \in 1..KeyLen |-> (re * 29 + 3 * i) % 256]] ]

Entropy == 1..MaxEntropy

\* -------------------------------------------------------------- storage
\* poller.py:103-109: the namespaces polled, in request order
\* (SnodeNamespaces: UserMessages 0, ConvoInfoVolatile 2, UserContacts 3,
\* UserGroups 5, UserProfile 4).
namespaces == <<0, 2, 3, 5, 4>>
NamespaceSet == { namespaces[i] : i \in 1..Len(namespaces) }

\* poller.py:114,173: f'last_hash_{namespace.value}'
last_hash_key(n) ==
    CASE n = 0 -> "last_hash_0"
      [] n = 2 -> "last_hash_2"
      [] n = 3 -> "last_hash_3"
      [] n = 4 -> "last_hash_4"
      [] n = 5 -> "last_hash_5"

StorageKeys == {"mnemonic"} \cup { last_hash_key(n) : n \in NamespaceSet }
StorageOutcomes == {"ok", "raise"}

\* ---------------------------------------------- session_py.instance.Session
\* The record kept of the most recently finished API call.
NoCall == [op |-> "none", target |-> 0, arg |-> <<>>, raised |-> "none",
           was_authorized |-> FALSE, sent |-> 0]

Call(op, target, arg, raised, was, sent) ==
    [op |-> op, target |-> target, arg |-> arg, raised |-> raised,
     was_authorized |-> was, sent |-> sent]

SessionInit ==
    /\ is_authorized = FALSE
    /\ keypair = None
    /\ session_id = None
    /\ mnemonic = None
    /\ storage = [k \in StorageKeys |-> None]
    /\ our_swarm = None
    /\ sm_task = None
    /\ last_call = NoCall
    /\ transport_calls = 0

\* get_set_mnemonic.py:20: the guard against a second initialisation.
already_initialized == is_authorized

\* get_set_mnemonic.py:36: the session id of a key pair.
make_session_id(kp) == <<"0", "5">> \o bytes_to_hex(kp.x25519.pub_key)

\* set_mnemonic (get_set_mnemonic.py:16-42) up to `await self.storage.set`.
\* One call at a time: the callers of this specification do not overlap calls.
SetMnemonic(m) ==
    /\ sm_task = None
    /\ IF already_initialized
       THEN /\ last_call' = Call("set_mnemonic", 0, m, "ALREADY_INITIALIZED",
                                 is_authorized, 0)
            /\ UNCHANGED <<is_authorized, keypair, session_id, mnemonic, storage,
                           sm_task, transport_calls>>
       ELSE IF Len(m) # 13
       THEN /\ last_call' = Call("set_mnemonic", 0, m, "INVALID_MNEMONIC",
                                 is_authorized, 0)
            /\ UNCHANGED <<is_authorized, keypair, session_id, mnemonic, storage,
                           sm_task, transport_calls>>
       ELSE IF decode_raises(m)
       THEN /\ last_call' = Call("set_mnemonic", 0, m, "ValueError", is_authorized, 0)
            /\ UNCHANGED <<is_authorized, keypair, session_id, mnemonic, storage,
                           sm_task, transport_calls>>
       ELSE LET kp == to_keypair(mnemonic_to_seed(m))
            IN  /\ keypair' = Some(kp)
                /\ session_id' = make_session_id(kp)
                /\ mnemonic' = Some(m)
                /\ sm_task' = Some([mnemonic |-> m, was_authorized |-> is_authorized,
                                     before |-> <<keypair, session_id, mnemonic>>])
                /\ UNCHANGED <<is_authorized, storage, last_call, transport_calls>>
    /\ UNCHANGED <<pollerVars, serverVars, clientVars, resolverVars, unsaved, unitVars>>

\* set_mnemonic (get_set_mnemonic.py:42-46): the storage write returns or raises.
SetMnemonicResume(outcome) ==
    /\ sm_task # None
    /\ LET call == sm_task[1]
       IN  /\ sm_task' = None
           /\ IF outcome = "ok"
              THEN /\ storage' = [storage EXCEPT !["mnemonic"] = Some(call.mnemonic)]
                   /\ unsaved' = {}
                   /\ is_authorized' = TRUE
                   /\ last_call' = Call("set_mnemonic", 0, call.mnemonic, "none",
                                        call.was_authorized, 0)
              ELSE /\ UNCHANGED <<storage, is_authorized, unsaved>>
                   /\ last_call' = Call("set_mnemonic", 0, call.mnemonic,
                                        "StorageError", call.was_authorized, 0)
           /\ UNCHANGED <<keypair, session_id, mnemonic, transport_calls>>
    /\ UNCHANGED <<pollerVars, serverVars, clientVars, resolverVars, unitVars>>

\* The mnemonics of overlapping callers: two identities and a phrase of 12 words.
OverlapMnemonics == { Repeat(1337, 13), Repeat(42, 13), Repeat(42, 12) }

\* set_mnemonic (get_set_mnemonic.py:16-42) called while other calls of it
\* are suspended in `await self.storage.set`: the same code runs up to its
\* own await, and sm_task holds the suspended calls in the order they began.
SetMnemonicOverlap(m) ==
    /\ sm_task # None
    /\ Len(sm_task) < MaxOverlap
    /\ IF already_initialized
       THEN /\ last_call' = Call("set_mnemonic", 0, m, "ALREADY_INITIALIZED",
                                 is_authorized, 0)
            /\ UNCHANGED <<is_authorized, keypair, session_id, mnemonic, storage,
                           sm_task, transport_calls>>
       ELSE IF Len(m) # 13
       THEN /\ last_call' = Call("set_mnemonic", 0, m, "INVALID_MNEMONIC",
                                 is_authorized, 0)
            /\ UNCHANGED <<is_authorized, keypair, session_id, mnemonic, storage,
                           sm_task, transport_calls>>
       ELSE IF decode_raises(m)
       THEN /\ last_call' = Call("set_mnemonic", 0, m, "ValueError", is_authorized, 0)
            /\ UNCHANGED <<is_authorized, keypair, session_id, mnemonic, storage,
                           sm_task, transport_calls>>
       ELSE LET kp == to_keypair(mnemonic_to_seed(m))
            IN  /\ keypair' = Some(kp)
                /\ session_id' = make_session_id(kp)
                /\ mnemonic' = Some(m)
                /\ sm_task' = Append(sm_task,
                                     [mnemonic |-> m, was_authorized |-> is_authorized,
                                      before |-> <<keypair, session_id, mnemonic>>])
                /\ UNCHANGED <<is_authorized, storage, last_call, transport_calls>>
    /\ UNCHANGED <<pollerVars, serverVars, clientVars, resolverVars, unsaved, unitVars>>

\* set_mnemonic (get_set_mnemonic.py:42-46): the storage write of the k-th
\* suspended call returns or raises.
SetMnemonicResumeAny(k, outcome) ==
    /\ k \in 1..Len(sm_task)
    /\ LET call == sm_task[k]
       IN  /\ sm_task' = SubSeq(sm_task, 1, k - 1) \o SubSeq(sm_task, k + 1, Len(sm_task))
           /\ IF outcome = "ok"
              THEN /\ storage' = [storage EXCEPT !["mnemonic"] = Some(call.mnemonic)]
                   /\ unsaved' = {}
                   /\ is_authorized' = TRUE
                   /\ last_call' = Call("set_mnemonic", 0, call.mnemonic, "none",
                                        call.was_authorized, 0)
              ELSE /\ UNCHANGED <<storage, is_authorized, unsaved>>
                   /\ last_call' = Call("set_mnemonic", 0, call.mnemonic,
                                        "StorageError", call.was_authorized, 0)
           /\ UNCHANGED <<keypair, session_id, mnemonic, transport_calls>>
    /\ UNCHANGED <<pollerVars, serverVars, clientVars, resolverVars, unitVars>>

\* The recipients callers pass to send_message.
GoodRecipient == <<"0", "5">> \o bytes_to_hex(to_keypair(Repeat(9, KeyLen)).x25519.pub_key)
Recipients ==
    { GoodRecipient,
      <<"0", "5">> \o Repeat("A", 64),                 \* upper-case hex
      <<"0", "5">> \o Repeat("0", 32) \o Repeat("5", 32),
      SubSeq(GoodRecipient, 1, 65),                    \* too short
      <<"1", "5">> \o SubSeq(GoodRecipient, 3, 66),    \* wrong prefix
      <<"0", "5", "g">> \o SubSeq(GoodRecipient, 4, 66), \* not hex
      <<"b">> }

\* send_message.py:33: the recipient check.
valid_recipient(to) ==
    ~ (Len(to) # 66 \/ ~ startswith_05(to) \/ ~ is_hex(replace_05(to)))

\* send_message (send_message.py:17-62).  The store path behind the two checks
\* (wrap, _store_message) is one transport request that succeeds or fails.
SendMessage(to, outcome) ==
    /\ IF session_id = None \/ keypair = None
       THEN /\ last_call' = Call("send_message", 0, to, "EMPTY_USER", is_authorized, 0)
            /\ UNCHANGED transport_calls
       ELSE IF ~ valid_recipient(to)
       THEN /\ last_call' = Call("send_message", 0, to, "INVALID_SESSION_ID",
                                 is_authorized, 0)
            /\ UNCHANGED transport_calls
       ELSE /\ transport_calls < MaxTransport
            /\ transport_calls' = transport_calls + 1
            /\ last_call' = Call("send_message", 0, to,
                                 IF outcome = "ok" THEN "none" ELSE "SNODE_ERROR",
                                 is_authorized, 1)
    /\ UNCHANGED <<is_authorized, keypair, session_id, mnemonic, storage, sm_task>>
    /\ UNCHANGED <<pollerVars, serverVars, clientVars, resolverVars, unsaved, unitVars>>

\* -------------------------------------------------- session_py_client.Session
ClientSessions == {1, 2}
\* What the callers of the client facade pass: two 13-word mnemonics that
\* decode, one string that is no mnemonic; a well-formed id and "b".
ClientMnemonics == { Repeat(1337, 13), Repeat(42, 13), Repeat(UnknownWord, 1) }
ClientRecipients == { GoodRecipient, <<"b">> }

ClientInit ==
    /\ c_mnemonic = [s \in ClientSessions |-> None]
    /\ c_keypair = [s \in ClientSessions |-> None]
    /\ c_session_id = [s \in ClientSessions |-> None]
    /\ c_storage = [s \in ClientSessions |-> None]
    /\ c_network = [s \in ClientSessions |-> 0]
    /\ c_last_call = NoCall

\* Session.set_mnemonic (session_py_client/session.py:38-46).
ClientSetMnemonic(s, m, rx, re) ==
    /\ IF c_mnemonic[s] # None
       THEN /\ c_last_call' = Call("set_mnemonic", s, m, "INVALID_OPTIONS",
                                   c_mnemonic[s] # None, 0)
            /\ UNCHANGED <<c_mnemonic, c_keypair, c_session_id, c_storage, c_network>>
       ELSE LET kp == generate_keypair(rx, re)
            IN  /\ c_mnemonic' = [c_mnemonic EXCEPT ![s] = Some(m)]
                /\ c_keypair' = [c_keypair EXCEPT ![s] = Some(kp)]
                /\ c_session_id' = [c_session_id EXCEPT
                                       ![s] = Uint8ArrayToHex(kp.ed25519.publicKey)]
                /\ c_storage' = [c_storage EXCEPT ![s] = Some(m)]
                /\ c_last_call' = Call("set_mnemonic", s, m, "none", FALSE, 0)
                /\ UNCHANGED c_network
    /\ UNCHANGED <<identityVars, storage, last_call, transport_calls, pollerVars,
                   serverVars, resolverVars, unsaved, unitVars>>

\* Session.send_message (session_py_client/session.py:55-63), with a network
\* module configured: the body goes to network.on_request unchecked.
ClientSendMessage(s, to) ==
    /\ c_network[s] < MaxClientRequests
    /\ c_network' = [c_network EXCEPT ![s] = @ + 1]
    /\ c_last_call' = Call("send_message", s, to, "none", c_mnemonic[s] # None, 1)
    /\ UNCHANGED <<c_mnemonic, c_keypair, c_session_id, c_storage>>
    /\ UNCHANGED <<identityVars, storage, last_call, transport_calls, pollerVars,
                   serverVars, resolverVars, unsaved, unitVars>>

\* ------------------------------------------------ session_py.polling.Poller
\* The runs of poll(): the one inside the task start() created, and one the
\* application awaits directly ("Manually triggers a poll", poller.py:90).
Executors == {"loop", "manual"}

\* The callbacks registered with Poller.on_message (poller.py:45-53), and the
\* listeners on Session.on_message (events.py:18-22), in registration order.
Callbacks == 1..NumCallbacks

\* What a stored envelope turns out to be when poll() handles it
\* (poller.py:154-162): a data message; or one that is dropped, because
\* decrypt or Content.decode raises or the content carries no dataMessage.
MsgKinds == {"data", "other"}

\* The namespaces our swarm receives messages in.
StoreNamespaces == {0, 2}

NoNamespace == 0 - 1

\* The locals of one run of poll().
IdleEx ==
    [pc |-> "idle", req |-> <<>>, resp |-> <<>>, i |-> 0, j |-> 0,
     decrypted_messages |-> <<>>, all_messages |-> <<>>,
     invoked |-> <<>>, emitted |-> <<>>, wrote |-> {},
     result |-> "none", error |-> "none"]

cursors == [i \in 1..Len(namespaces) |-> storage[last_hash_key(namespaces[i])]]

PollerInit ==
    /\ polling = FALSE
    /\ task = None
    /\ ex = [e \in Executors |-> IdleEx]
    /\ running = "none"
    /\ loop_calls = 0
    /\ polls = [e \in Executors |-> 0]
    /\ srv_log = [n \in NamespaceSet |-> <<>>]
    /\ srv_kind = <<>>

\* A client stores a message for us: the swarm appends it to the namespace
\* and assigns its hash (hashes are numbered in arrival order).
ServerStore(n, kind) ==
    /\ running = "none"
    /\ Len(srv_kind) < MaxMsgs
    /\ srv_kind' = Append(srv_kind, kind)
    /\ srv_log' = [srv_log EXCEPT ![n] = Append(@, Len(srv_kind) + 1)]
    /\ UNCHANGED <<identityVars, storage, last_call, transport_calls, pollerVars,
                   clientVars, resolverVars, unsaved, unitVars>>

\* start() with the check of poller.py:59 left out.
start_refused_never == FALSE

\* poller.py:59: the check start() makes before anything else.
start_refused == ~ is_authorized

\* start() with the test of poller.py:64 left out.
already_polling_ignored == FALSE

\* poller.py:64: `if not self.polling`.
already_polling == polling

\* Poller.start (poller.py:55-66).
Start ==
    /\ running = "none"
    /\ IF start_refused
       THEN /\ last_call' = Call("start", 0, <<>>, "EMPTY_USER", is_authorized, 0)
            /\ UNCHANGED <<polling, task, ex>>
       ELSE IF ~ already_polling
       THEN /\ polling' = TRUE
            /\ task' = Some("loop")
            /\ ex' = [ex EXCEPT !["loop"] = [IdleEx EXCEPT !.pc = "created"]]
            /\ last_call' = Call("start", 0, <<>>, "none", is_authorized, 0)
       ELSE /\ last_call' = Call("start", 0, <<>>, "none", is_authorized, 0)
            /\ UNCHANGED <<polling, task, ex>>
    /\ UNCHANGED <<identityVars, storage, transport_calls, running,
                   loop_calls, polls, our_swarm, serverVars, clientVars, resolverVars, unsaved, unitVars>>

\* stop() without task.cancel(): the task stays as it is.
cancel_omitted(rec) == rec

\* poller.py:74: task.cancel().  The task is suspended (stop() runs on the
\* same event loop), CancelledError is thrown into it at its await, and
\* neither `except Exception` (poller.py:84, 168) catches it: the task ends.
cancel(rec) == IdleEx

\* Poller.stop (poller.py:68-75), called by the application while the task
\* is suspended.
Stop ==
    /\ running = "none"
    /\ IF polling /\ task # None
       THEN /\ polling' = FALSE
            /\ task' = None
            /\ ex' = [ex EXCEPT !["loop"] = cancel(@)]
       ELSE UNCHANGED <<polling, task, ex>>
    /\ last_call' = Call("stop", 0, <<>>, "none", is_authorized, 0)
    /\ UNCHANGED <<identityVars, storage, transport_calls, running, loop_calls,
                   polls, our_swarm, serverVars, clientVars, resolverVars, unsaved, unitVars>>

\* How a run of poll() ends: the direct caller gets the result or the
\* exception; in the task, _poll_loop logs an Exception (poller.py:82-85) and
\* goes to sleep (poller.py:86).
poll_ends(e, rec, res, err) ==
    [IdleEx EXCEPT !.pc = IF e = "loop" THEN "sleep" ELSE "idle",
                   !.result = res, !.error = err,
                   !.wrote = rec.wrote, !.emitted = rec.emitted]

\* poll() asking every namespace for all of its messages: the cursors in
\* storage are not read.
send_batch_from_start(rec) ==
    [rec EXCEPT !.pc = "batch", !.req = [i \in 1..Len(namespaces) |-> None]]

\* poller.py:111-141: one retrieve sub-request per namespace carrying the
\* cursor read from storage (neither shipped Storage.get suspends:
\* memory.py:25, file.py:73), then the batch request is sent and awaited.
send_batch(rec) == [rec EXCEPT !.pc = "batch", !.req = cursors]

\* poll() from its call to its first await (poller.py:94-97, swarms.py:124-130).
poll_begin(e) ==
    /\ polls' = [polls EXCEPT ![e] = @ + 1]
    /\ IF keypair = None \/ session_id = None
       THEN /\ ex' = [ex EXCEPT ![e] = poll_ends(e, IdleEx, "raised", "EMPTY_USER")]
            /\ UNCHANGED <<transport_calls, loop_calls>>
       ELSE /\ ex' = [ex EXCEPT ![e] = IF our_swarm # None
                                       THEN send_batch(IdleEx)
                                       ELSE [IdleEx EXCEPT !.pc = "swarm"]]
            /\ transport_calls' = transport_calls + 1
            /\ loop_calls' = IF e = "loop" THEN loop_calls + 1 ELSE loop_calls
    /\ UNCHANGED <<identityVars, storage, last_call, polling, task, running,
                   our_swarm, serverVars, clientVars, resolverVars, unsaved, unitVars>>

\* _poll_loop (poller.py:77-86): the task runs for the first time or wakes
\* from its sleep, tests `while self.polling` and calls poll().
LoopWake ==
    /\ running = "none"
    /\ ex["loop"].pc \in {"created", "sleep"}
    /\ polls["loop"] < MaxLoopPolls
    /\ IF polling
       THEN poll_begin("loop")
       ELSE /\ ex' = [ex EXCEPT !["loop"] = IdleEx]
            /\ UNCHANGED <<identityVars, storage, last_call, transport_calls, polling,
                           task, running, loop_calls, polls, our_swarm,
                           serverVars, clientVars, resolverVars, unsaved, unitVars>>

\* The application awaits poller.poll() itself.
ManualPoll ==
    /\ running = "none"
    /\ ex["manual"].pc = "idle"
    /\ polls["manual"] < MaxManualPolls
    /\ poll_begin("manual")

\* get_our_swarm resumes (swarms.py:130-136): the swarm is cached and the
\* batch goes out, or get_swarms_for gave up with SessionFetchError.
SwarmResolved(e, outcome) ==
    /\ running = "none"
    /\ ex[e].pc = "swarm"
    /\ IF outcome = "ok"
       THEN /\ our_swarm' = Some("swarm")
            /\ ex' = [ex EXCEPT ![e] = send_batch(@)]
            /\ transport_calls' = transport_calls + 1
            /\ loop_calls' = IF e = "loop" THEN loop_calls + 1 ELSE loop_calls
       ELSE /\ ex' = [ex EXCEPT ![e] = poll_ends(e, @, "raised", "SNODE_ERROR")]
            /\ UNCHANGED <<our_swarm, transport_calls, loop_calls>>
    /\ UNCHANGED <<identityVars, storage, last_call, polling, task, running,
                   polls, serverVars, clientVars, resolverVars, unsaved, unitVars>>

\* The messages of namespace n stored after the one whose hash is last_hash
\* (all of them when last_hash is empty or unknown).
retrieve(n, last_hash) ==
    LET log == srv_log[n]
        known == last_hash # None /\ \E k \in 1..Len(log) : log[k] = last_hash[1]
        at == IF known THEN CHOOSE k \in 1..Len(log) : log[k] = last_hash[1] ELSE 0
    IN  SubSeq(log, at + 1, Len(log))

\* The snode answers the batch of run e: one sub-response per sub-request
\* (a sub-request may fail on its own, whatever body comes with its code), or
\* the request fails as a whole.
BatchServe(e, outcome, bad) ==
    /\ running = "none"
    /\ ex[e].pc = "batch"
    /\ IF outcome = "ok"
       THEN ex' = [ex EXCEPT ![e].pc = "reply",
                             ![e].resp =
                                [i \in 1..Len(namespaces) |->
                                    IF namespaces[i] = bad
                                    THEN [code |-> 500,
                                          messages |-> retrieve(namespaces[i],
                                                                ex[e].req[i])]
                                    ELSE [code |-> 200,
                                          messages |-> retrieve(namespaces[i],
                                                                ex[e].req[i])]]]
       ELSE /\ bad = NoNamespace
            /\ ex' = [ex EXCEPT ![e].pc = "error"]
    /\ UNCHANGED <<identityVars, storage, last_call, transport_calls, polling, task,
                   running, loop_calls, polls, our_swarm, serverVars,
                   clientVars, resolverVars, unsaved, unitVars>>

\* poll() with the test of poller.py:145 left out.
sub_failed_never(sub_resp) == FALSE

\* poller.py:145: a sub-response whose code is not 200 is passed over.
sub_failed(sub_resp) == sub_resp.code # 200

\* poller.py:171: whether poll() writes the cursor of a sub-response.
writes_cursor(sub_resp) == Len(sub_resp.messages) > 0

\* poller.py:144-175: the loop over the sub-responses changes nothing for one
\* that failed (145-147) or carries no message (152, 171, 175): the index of
\* the first sub-response from i on that has messages to handle, or
\* Len(batch_result) + 1 when there is none.
RECURSIVE advance(_, _)
advance(batch_result, i) ==
    IF i > Len(batch_result) THEN i
    ELSE IF ~ sub_failed(batch_result[i]) /\ writes_cursor(batch_result[i]) THEN i
    ELSE advance(batch_result, i + 1)

\* do_snode_batch_request returns or raises (snode_batch.py:61-69); on a
\* result poll() goes on, without awaiting, to the first sub-response
\* (poller.py:143-144).
BatchReceive(e) ==
    /\ running = "none"
    /\ ex[e].pc \in {"reply", "error"}
    /\ IF ex[e].pc = "reply"
       THEN /\ ex' = [ex EXCEPT ![e].pc = "process", ![e].j = 0,
                                  ![e].i = advance(ex[e].resp, 1)]
            /\ running' = e
       ELSE /\ ex' = [ex EXCEPT ![e] = poll_ends(e, @, "raised", "Exception")]
            /\ UNCHANGED running
    /\ UNCHANGED <<identityVars, storage, last_call, transport_calls, polling, task,
                   loop_calls, polls, our_swarm, serverVars, clientVars, resolverVars, unsaved, unitVars>>

\* poller.py:166-167: the callbacks are called in registration order; the
\* first that raises ends the dispatch of this message (poller.py:168).
\* raises = 0: none raises.
dispatch(h, raises) ==
    [c \in 1..(IF raises = 0 THEN NumCallbacks ELSE raises) |-> <<c, h>>]

\* poller.py:152-169: the next raw message of the current sub-response.
ProcessMessage(e, raises) ==
    /\ running = e
    /\ ex[e].pc = "process"
    /\ ex[e].i <= Len(namespaces)
    /\ ~ sub_failed(ex[e].resp[ex[e].i])
    /\ ex[e].j < Len(ex[e].resp[ex[e].i].messages)
    /\ LET h == ex[e].resp[ex[e].i].messages[ex[e].j + 1]
       IN  IF srv_kind[h] = "data"
           THEN ex' = [ex EXCEPT ![e].j = @ + 1,
                                 ![e].decrypted_messages = Append(@, h),
                                 ![e].invoked = @ \o dispatch(h, raises)]
           ELSE /\ raises = 0
                /\ ex' = [ex EXCEPT ![e].j = @ + 1]
    /\ UNCHANGED <<identityVars, storage, last_call, transport_calls, polling, task,
                   running, loop_calls, polls, our_swarm, serverVars,
                   clientVars, resolverVars, unsaved, unitVars>>

\* poll() writing the hash of the last message it decrypted (of the first
\* raw message when it decrypted none).
new_last_hash_decrypted(raw_messages) ==
    LET decrypted == SelectSeq(raw_messages, LAMBDA h : srv_kind[h] = "data")
    IN  IF decrypted = <<>> THEN raw_messages[1] ELSE decrypted[Len(decrypted)]

\* poller.py:172: the cursor value poll() writes for a sub-response.
new_last_hash(raw_messages) == raw_messages[Len(raw_messages)]

\* poller.py:175 and the step of the loop at poller.py:144.
next_sub(rec) ==
    [rec EXCEPT !.pc = "process", !.i = advance(rec.resp, @ + 1), !.j = 0,
                !.all_messages = @ \o rec.decrypted_messages,
                !.decrypted_messages = <<>>]

\* FileStorage._save_data (file.py:53-64) after FileStorage.set put the value
\* of `key` in _data (file.py:82): the whole of _data is dumped to the file, or
\* open/dump raises IOError, which is caught and dropped (file.py:62-64) and
\* leaves the file without the new value.  The result is the set of keys the
\* file does not hold the current value of.
save_data(key, io_error) == IF io_error THEN unsaved \cup {key} ELSE {}

\* poller.py:171-175: the messages of the current sub-response are handled
\* and its cursor is written.  Both shipped storages put the
\* value in place before their first await (memory.py:34, file.py:82); the
\* await of Storage.set then returns at once, suspends the run until the
\* storage is done, or raises; with a FileStorage whose file cannot be
\* written ("io_error") it returns at once as if the write had been made.
Persist(e, outcome) ==
    /\ running = e
    /\ ex[e].pc = "process"
    /\ ex[e].i <= Len(namespaces)
    /\ ~ sub_failed(ex[e].resp[ex[e].i])
    /\ ex[e].j = Len(ex[e].resp[ex[e].i].messages)
    /\ LET sub_resp == ex[e].resp[ex[e].i]
           n == namespaces[ex[e].i]
       IN  IF outcome = "raise"
           THEN /\ ex' = [ex EXCEPT ![e] = poll_ends(e, @, "raised", "StorageError")]
                /\ running' = "none"
                /\ UNCHANGED <<storage, unsaved>>
           ELSE /\ storage' = [storage EXCEPT
                                 ![last_hash_key(n)] = Some(new_last_hash(sub_resp.messages))]
                /\ unsaved' = save_data(last_hash_key(n), outcome = "io_error")
                /\ IF outcome \in {"ok", "io_error"}
                   THEN /\ ex' = [ex EXCEPT ![e] = next_sub([@ EXCEPT !.wrote = @ \cup {n}])]
                        /\ UNCHANGED running
                   ELSE /\ ex' = [ex EXCEPT ![e].pc = "write", ![e].wrote = @ \cup {n}]
                        /\ running' = "none"
    /\ UNCHANGED <<identityVars, last_call, transport_calls, polling, task,
                   loop_calls, polls, our_swarm, serverVars, clientVars, resolverVars,
                   unitVars>>

\* The suspended Storage.set returns (poller.py:173-175).
WriteResume(e) ==
    /\ running = "none"
    /\ ex[e].pc = "write"
    /\ ex' = [ex EXCEPT ![e] = next_sub(@)]
    /\ running' = e
    /\ UNCHANGED <<identityVars, storage, last_call, transport_calls, polling, task,
                   loop_calls, polls, our_swarm, serverVars, clientVars, resolverVars, unsaved, unitVars>>

\* poller.py:178-180 and polling.py:15-25: after the last sub-response the
\* messages are emitted on Session.on_message in order, and poll() returns.
\* Event.emit lets a listener's exception through (events.py:34-35): the
\* emission stops at message number `raises` (0: no listener raises).
Emit(e, raises) ==
    /\ running = e
    /\ ex[e].pc = "process"
    /\ ex[e].i > Len(namespaces)
    /\ raises \in 0..Len(ex[e].all_messages)
    /\ ex' = [ex EXCEPT ![e] =
                IF raises = 0
                THEN poll_ends(e, [@ EXCEPT !.emitted = ex[e].all_messages],
                               "returned", "none")
                ELSE poll_ends(e, [@ EXCEPT !.emitted =
                                      SubSeq(ex[e].all_messages, 1, raises)],
                               "raised", "ListenerError")]
    /\ running' = "none"
    /\ UNCHANGED <<identityVars, storage, last_call, transport_calls, polling, task,
                   loop_calls, polls, our_swarm, serverVars, clientVars, resolverVars, unsaved, unitVars>>

\* ------------------------------------------------------ the storage classes
\* The classes: session_py.storage.memory.InMemoryStorage ("memory"),
\* session_py.storage.file.FileStorage ("file") and
\* session_py_client.storage.in_memory.InMemoryStorage ("client").
StorageClasses == {"memory", "file", "client"}
UnitKeys == {"a", "b"}
StorageValues == {"1", "2"}
StorageItems == {"x", "y"}

\* What a key of the dictionary (_data, _storage) holds: nothing, a value
\* given to set, or a Python list.
Absent == [kind |-> "absent", str |-> "", list |-> <<>>]
Str(v) == [kind |-> "str", str |-> v, list |-> <<>>]
List(l) == [kind |-> "list", str |-> "", list |-> l]
\* A call that raises instead of returning.
Raised(exception) == [kind |-> "raised", str |-> exception, list |-> <<>>]

NoStorage == [class |-> "none", data |-> [k \in UnitKeys |-> Absent],
              last |-> [op |-> "none", key |-> "", arg |-> "", raised |-> "none"]]

UnitStorageInit == kv = NoStorage

\* __init__ (memory.py:15-16, in_memory.py:26-27; file.py:24-37 with no file
\* at file_path yet): an empty dictionary.
StorageNew(class) ==
    /\ kv.class = "none"
    /\ kv' = [kv EXCEPT !.class = class,
                        !.last = [op |-> "new", key |-> "", arg |-> "", raised |-> "none"]]
    /\ UNCHANGED <<identityVars, storage, last_call, transport_calls, pollerVars,
                   serverVars, clientVars, resolverVars, unsaved, crypto, loopVars>>

\* get (memory.py:25, file.py:73, in_memory.py:32): dict.get(key), None when
\* the key is absent; whatever object the key holds otherwise.
storage_get(data, key) == data[key]

\* has (memory.py:52, file.py:102, in_memory.py:47): `key in dict`.
storage_has(data, key) == data[key].kind # "absent"

\* The classes with append_list and get_list: the client class has the four
\* methods of its Storage protocol only (in_memory.py:6-47).
has_lists(class) == class \in {"memory", "file"}

\* get_list: memory.py:73 returns dict.get(key, []), whatever the key holds;
\* file.py:129-132 returns the value when it is a list and [] otherwise.
storage_get_list(class, data, key) ==
    IF data[key].kind = "list" THEN data[key]
    ELSE IF data[key].kind = "absent" \/ class = "file" THEN List(<<>>)
    ELSE data[key]

\* set (memory.py:34, file.py:82-83, in_memory.py:37).
StorageSet(key, value) ==
    /\ kv.class # "none"
    /\ kv' = [kv EXCEPT !.data[key] = Str(value),
                        !.last = [op |-> "set", key |-> key, arg |-> value,
                                  raised |-> "none"]]
    /\ UNCHANGED <<identityVars, storage, last_call, transport_calls, pollerVars,
                   serverVars, clientVars, resolverVars, unsaved, crypto, loopVars>>

\* delete (memory.py:42-43, file.py:91-93, in_memory.py:42).
StorageDelete(key) ==
    /\ kv.class # "none"
    /\ kv' = [kv EXCEPT !.data[key] = Absent,
                        !.last = [op |-> "delete", key |-> key, arg |-> "",
                                  raised |-> "none"]]
    /\ UNCHANGED <<identityVars, storage, last_call, transport_calls, pollerVars,
                   serverVars, clientVars, resolverVars, unsaved, crypto, loopVars>>

\* append_list.  memory.py:62-64 creates the list when the key is absent and
\* calls .append on whatever the key holds: a str has no append, the call
\* raises AttributeError.  file.py:113-120 starts a new list when the key
\* holds no list and stores it under the key.
append_list(class, cell, item) ==
    IF cell.kind = "list" THEN List(Append(cell.list, item))
    ELSE IF cell.kind = "absent" \/ class = "file" THEN List(<<item>>)
    ELSE Raised("AttributeError")

StorageAppendList(key, item) ==
    /\ has_lists(kv.class)
    /\ Len(kv.data[key].list) < MaxList
    /\ LET new == append_list(kv.class, kv.data[key], item)
       IN  kv' = [kv EXCEPT !.data[key] = IF new.kind = "raised" THEN @ ELSE new,
                            !.last = [op |-> "append_list", key |-> key, arg |-> item,
                                      raised |-> IF new.kind = "raised"
                                                 THEN new.str ELSE "none"]]
    /\ UNCHANGED <<identityVars, storage, last_call, transport_calls, pollerVars,
                   serverVars, clientVars, resolverVars, unsaved, crypto, loopVars>>

\* ------------------------------------------------- the message functions
\* A Python bytes object, as the sequence of its runs: run [b |-> v, n |-> k]
\* stands for k > 0 bytes of value v, and neighbouring runs differ in value.
Run(b, n) == [b |-> b, n |-> n]

RECURSIVE norm(_)
norm(runs) ==
    IF runs = <<>> THEN <<>>
    ELSE IF Head(runs).n = 0 THEN norm(Tail(runs))
    ELSE IF Len(runs) = 1 THEN runs
    ELSE IF runs[2].n = 0 THEN norm(<<runs[1]>> \o Tail(Tail(runs)))
    ELSE IF runs[1].b = runs[2].b
         THEN norm(<<Run(runs[1].b, runs[1].n + runs[2].n)>> \o Tail(Tail(runs)))
    ELSE <<runs[1]>> \o norm(Tail(runs))

\* len(x)
RECURSIVE len(_)
len(x) == IF x = <<>> THEN 0 ELSE Head(x).n + len(Tail(x))

\* x + y, concat_bytes, concatUInt8Array
concat(x, y) == norm(x \o y)

\* x[:k] for 0 <= k
RECURSIVE take(_, _)
take(x, k) ==
    IF k <= 0 \/ x = <<>> THEN <<>>
    ELSE IF Head(x).n >= k THEN <<Run(Head(x).b, k)>>
    ELSE <<Head(x)>> \o take(Tail(x), k - Head(x).n)

\* x[k:] for 0 <= k
RECURSIVE drop(_, _)
drop(x, k) ==
    IF k <= 0 \/ x = <<>> THEN x
    ELSE IF Head(x).n > k THEN <<Run(Head(x).b, Head(x).n - k)>> \o Tail(x)
    ELSE drop(Tail(x), k - Head(x).n)

\* x[i] for 0 <= i < len(x)
RECURSIVE at(_, _)
at(x, i) == IF i < Head(x).n THEN Head(x).b ELSE at(Tail(x), i - Head(x).n)

\* The lengths and contents of the messages given to the functions: the
\* lengths around every block size of both padding schemes, around the
\* largest length two bytes hold, and 10 MiB.
MessageLengths ==
    {0, 1, 2, 14, 15, 16, 17, 126, 127, 128, 129, 144, 158, 159, 160, 161,
     254, 255, 256, 318, 319, 320, 510, 511, 512, 1022, 1023, 1024, 1280,
     65533, 65534, 65535, 65536, 65537, 10485760}
LastBytes == {0, 1, 128}
Messages ==
    UNION { { norm(<<Run(1, l - t), Run(b, t)>>) : t \in { u \in 0..1 : u <= l } } :
              l \in MessageLengths, b \in LastBytes }
\* The values secrets.token_bytes fills the padding with (message_encrypt.py:57).
RandomBytes == {0, 7}

NoMessageCall == [fn |-> "none", message |-> <<>>, arg |-> <<>>, out |-> <<>>, raised |-> "none"]
MessageInit == crypto = NoMessageCall

\* session_py add_message_padding (message_encrypt.py:40-58).
padding_length(original_length) ==
    LET aligned == IF original_length < 128 THEN (16 - (original_length % 16)) % 16
                   ELSE IF original_length < 256 THEN (32 - (original_length % 32)) % 32
                   ELSE IF original_length < 512 THEN (64 - (original_length % 64)) % 64
                   ELSE IF original_length < 1024 THEN (128 - (original_length % 128)) % 128
                   ELSE (256 - (original_length % 256)) % 256
    IN  IF aligned = 0 THEN 16 ELSE aligned

add_message_padding(plain_text_buffer, random) ==
    concat(plain_text_buffer, <<Run(random, padding_length(len(plain_text_buffer)))>>)

\* int.to_bytes(2, 'big') (message_encrypt.py:86): the two bytes of the
\* length, defined for lengths below 2^16 (OverflowError otherwise).
to_bytes(n) == norm(<<Run(n \div 256, 1), Run(n % 256, 1)>>)

\* int.from_bytes(x[:2], 'big') (message_decrypt.py:99)
from_bytes(x) ==
    IF len(x) = 0 THEN 0
    ELSE IF len(x) = 1 THEN at(x, 0)
    ELSE at(x, 0) * 256 + at(x, 1)

\* message_decrypt.py:99-100: the plaintext without length and padding.
strip_padding(padded_plaintext) ==
    take(drop(padded_plaintext, 2), from_bytes(take(padded_plaintext, 2)))

\* session_py_client _get_padded_message_length (message_padding.py:49-54).
get_padded_message_length(original_length) ==
    LET message_length_with_terminator == original_length + 1
        message_part_count == message_length_with_terminator \div 160
    IN  IF message_length_with_terminator % 160 # 0
        THEN (message_part_count + 1) * 160
        ELSE message_part_count * 160

\* session_py_client add_message_padding (message_padding.py:42-46).
client_add_message_padding(message) ==
    LET padded_len == get_padded_message_length(len(message) + 1) - 1
    IN  concat(concat(message, <<Run(128, 1)>>),
               <<Run(0, padded_len - len(message) - 1)>>)

\* session_py_client remove_message_padding (message_padding.py:23-29), run by
\* run from the end: a run of zero bytes is passed over; at a byte 0x80 the
\* bytes before it are returned; at any other byte the argument is returned
\* as it is; with no byte left ValueError is raised.
RECURSIVE scan_padding(_, _)
scan_padding(padded_plaintext, runs) ==
    IF runs = <<>> THEN [out |-> <<>>, raised |-> "ValueError"]
    ELSE LET last == runs[Len(runs)]
         IN  IF last.b = 128
             THEN [out |-> take(padded_plaintext, len(runs) - 1), raised |-> "none"]
             ELSE IF last.b # 0
             THEN [out |-> padded_plaintext, raised |-> "none"]
             ELSE scan_padding(padded_plaintext, SubSeq(runs, 1, Len(runs) - 1))

remove_message_padding(padded_plaintext) == scan_padding(padded_plaintext, padded_plaintext)

messageFrame ==
    <<identityVars, storage, last_call, transport_calls, pollerVars,
      serverVars, clientVars, resolverVars, unsaved, kv, loopVars>>

\* add_message_padding(plain_text_buffer) of session_py is called.
AddMessagePadding(m, random) ==
    /\ crypto' = [fn |-> "add_message_padding", message |-> m, arg |-> m,
                  out |-> add_message_padding(m, random), raised |-> "none"]
    /\ UNCHANGED messageFrame

\* encrypt of session_py up to the padded plaintext (message_encrypt.py:85-88).
EncryptPad(m, random) ==
    /\ crypto' = IF len(m) >= 65536
                 THEN [fn |-> "encrypt", message |-> m, arg |-> m, out |-> <<>>,
                       raised |-> "OverflowError"]
                 ELSE [fn |-> "encrypt", message |-> m, arg |-> m,
                       out |-> add_message_padding(concat(to_bytes(len(m)), m), random),
                       raised |-> "none"]
    /\ UNCHANGED messageFrame

\* decrypt of session_py from the verified padded plaintext on
\* (message_decrypt.py:98-100), given what encrypt padded.
DecryptStrip ==
    /\ crypto.fn = "encrypt"
    /\ crypto.raised = "none"
    /\ crypto' = [fn |-> "decrypt", message |-> crypto.message, arg |-> crypto.out,
                  out |-> strip_padding(crypto.out), raised |-> "none"]
    /\ UNCHANGED messageFrame

\* add_message_padding(message) of session_py_client is called.
ClientAddMessagePadding(m) ==
    /\ crypto' = [fn |-> "client_add_message_padding", message |-> m, arg |-> m,
                  out |-> client_add_message_padding(m), raised |-> "none"]
    /\ UNCHANGED messageFrame

\* remove_message_padding(padded_plaintext) of session_py_client is called
\* with the result of add_message_padding.
ClientRemovePadding ==
    /\ crypto.fn = "client_add_message_padding"
    /\ LET r == remove_message_padding(crypto.out)
       IN  crypto' = [fn |-> "remove_message_padding", message |-> crypto.message,
                      arg |-> crypto.out, out |-> r.out, raised |-> r.raised]
    /\ UNCHANGED messageFrame

\* remove_message_padding is called with any bytes.
ClientRemoveAnyPadding(padded_plaintext) ==
    /\ LET r == remove_message_padding(padded_plaintext)
       IN  crypto' = [fn |-> "remove_message_padding", message |-> <<>>,
                      arg |-> padded_plaintext, out |-> r.out, raised |-> r.raised]
    /\ UNCHANGED messageFrame

\* ------------------------------------ the Session protocol (client package)
\* base64.b16encode: two uppercase digits a byte (test_crypto.py:30).
UpperDigits == <<"0","1","2","3","4","5","6","7","8","9","A","B","C","D","E","F">>

RECURSIVE b16encode(_)
b16encode(data) ==
    IF data = <<>> THEN <<>>
    ELSE <<UpperDigits[(Head(data) \div 16) + 1], UpperDigits[(Head(data) % 16) + 1]>>
         \o b16encode(Tail(data))

\* int(digit, 16)
digit_value(ch) ==
    IF \E v \in 1..16 : HexDigits[v] = ch
    THEN (CHOOSE v \in 1..16 : HexDigits[v] = ch) - 1
    ELSE (CHOOSE v \in 1..16 : UpperDigits[v] = ch) - 1

\* hexToUint8Array (utils.py:66-79): one byte for every pair of digits, up to
\* the first pair that is no hex number.
RECURSIVE hexToUint8Array(_)
hexToUint8Array(hex_string) ==
    IF Len(hex_string) < 2 THEN <<>>
    ELSE IF hex_string[1] \notin HexChars \/ hex_string[2] \notin HexChars THEN <<>>
    ELSE <<digit_value(hex_string[1]) * 16 + digit_value(hex_string[2])>>
         \o hexToUint8Array(SubSeq(hex_string, 3, Len(hex_string)))

\* removePrefixIfNeeded (utils.py:88-98): a leading "05" of a string, or a
\* leading byte 0x05 of bytes, is cut off, whatever the length of the value.
removePrefixIfNeeded_str(value) ==
    IF startswith_05(value) THEN SubSeq(value, 3, Len(value)) ELSE value
removePrefixIfNeeded_bytes(value) ==
    IF value # <<>> /\ Head(value) = 5 THEN Tail(value) ELSE value

\* The public key of an Ed25519 private key (the key SigningKey.generate()
\* made from randomness re, message_encrypt.py:59, 65).
ed25519_public(re) == generate_keypair(0, re).ed25519.publicKey

\* bindings.crypto_sign_ed25519_pk_to_curve25519: a function of the key.
pk_to_curve25519(ed_pub) == [i \in 1..KeyLen |-> (digest(ed_pub) * 5 + 2 * i + 1) % 256]

\* The public key of an X25519 private key: of one PrivateKey.generate() made
\* from randomness r, or of one converted from the Ed25519 key of randomness r
\* (crypto_sign_ed25519_sk_to_curve25519, message_encrypt.py:81).
x25519_public(privateKey) ==
    IF privateKey.kind = "generated"
    THEN generate_keypair(privateKey.r, 0).x25519.publicKey
    ELSE pk_to_curve25519(ed25519_public(privateKey.r))

\* The keypairs in use:
\*   "g1", "g2"  made by generate_keypair (message_encrypt.py:58-67): the
\*               X25519 and the Ed25519 keys are generated independently; the
\*               X25519 public key of g2 starts with the byte 0x05;
\*   "d1"        made by get_keypair_from_seed (message_encrypt.py:78-86): the
\*               X25519 keys are converted from the Ed25519 keys and publicKey
\*               carries the prefix byte 0x05.
KeypairNames == {"g1", "g2", "d1"}

Keypair(name) ==
    LET rx == IF name = "g1" THEN 1 ELSE 196
        re == IF name = "g1" THEN 1 ELSE IF name = "g2" THEN 2 ELSE 3
    IN  IF name = "d1"
        THEN [x25519 |-> [publicKey |-> <<5>> \o pk_to_curve25519(ed25519_public(re)),
                          privateKey |-> [kind |-> "converted", r |-> re]],
              ed25519 |-> [publicKey |-> ed25519_public(re), privateKey |-> re]]
        ELSE [x25519 |-> [publicKey |-> generate_keypair(rx, re).x25519.publicKey,
                          privateKey |-> [kind |-> "generated", r |-> rx]],
              ed25519 |-> [publicKey |-> generate_keypair(rx, re).ed25519.publicKey,
                           privateKey |-> re]]

\* The plaintexts given to encrypt.
Plaintexts ==
    {<<>>, <<Run(1, 4)>>, <<Run(1, 3), Run(128, 1)>>, <<Run(1, 3), Run(0, 1)>>,
     <<Run(1, 65536)>>}

\* encrypt / _encrypt_using_session_protocol (message_encrypt.py:122-158);
\* crypto_box_seal wants a public key of 32 bytes and raises otherwise.
client_encrypt(sender_keypair, recipient, plain_text_buffer) ==
    LET padded == client_add_message_padding(plain_text_buffer)
        ed_pub == sender_keypair.ed25519.publicKey
        recipient_pub == hexToUint8Array(removePrefixIfNeeded_str(recipient))
        verification_data == <<padded, ed_pub, recipient_pub>>
        signature == [signer |-> sender_keypair.ed25519.privateKey,
                      data |-> verification_data]
        plaintext_with_meta == [plaintext |-> padded, ed_pub |-> ed_pub,
                                signature |-> signature]
    IN  IF Len(recipient_pub) # KeyLen
        THEN [raised |-> "ValueError", cipherText |-> <<>>]
        ELSE [raised |-> "none",
              cipherText |-> <<[sealed_to |-> recipient_pub,
                                content |-> plaintext_with_meta]>>]

\* decrypt_envelope_with_our_key / decrypt_with_session_protocol
\* (message_decrypt.py:148-149, 182-214): crypto_box_seal_open raises unless
\* the keys are the pair the box was sealed to; the signature is verified
\* over plaintext + sender_ed_pub + recipient_pub; envelope.source becomes
\* the hex of the sender's converted Ed25519 key; the padding is removed.
decrypt_envelope_with_our_key(our_keypair, content) ==
    LET recipient_pub == removePrefixIfNeeded_bytes(our_keypair.x25519.publicKey)
        box == content[1]
        opened == /\ Len(recipient_pub) = KeyLen
                  /\ box.sealed_to = recipient_pub
                  /\ x25519_public(our_keypair.x25519.privateKey) = recipient_pub
        plaintext_with_meta == box.content
        signature == plaintext_with_meta.signature
        sender_ed_pub == plaintext_with_meta.ed_pub
        plaintext == plaintext_with_meta.plaintext
        verification_data == <<plaintext, sender_ed_pub, recipient_pub>>
        verified == /\ ed25519_public(signature.signer) = sender_ed_pub
                    /\ signature.data = verification_data
        unpadded == remove_message_padding(plaintext)
    IN  IF ~ opened THEN [raised |-> "CryptoError", out |-> <<>>, source |-> <<>>]
        ELSE IF len(plaintext) + 96 <= 96 \/ ~ verified
        THEN [raised |-> "ValueError", out |-> <<>>, source |-> <<>>]
        ELSE [raised |-> unpadded.raised, out |-> unpadded.out,
              source |-> Uint8ArrayToHex(pk_to_curve25519(sender_ed_pub))]

\* encrypt(sender, hex of the recipient's x25519.publicKey, p, SESSION_MESSAGE)
\* is called (as in test_crypto.py:30).
ClientEncrypt(sender, recipient, p) ==
    /\ LET r == client_encrypt(Keypair(sender),
                               b16encode(Keypair(recipient).x25519.publicKey), p)
       IN  crypto' = [fn |-> "client_encrypt", message |-> p, arg |-> p,
                      out |-> r.cipherText, raised |-> r.raised,
                      sender |-> sender, recipient |-> recipient,
                      keypair |-> "none", source |-> <<>>]
    /\ UNCHANGED messageFrame

\* decrypt_envelope_with_our_key(keypair, envelope) is called with the
\* envelope of the ciphertext just made (test_crypto.py:31-40).
ClientDecrypt(name) ==
    /\ crypto.fn = "client_encrypt"
    /\ crypto.raised = "none"
    /\ LET r == decrypt_envelope_with_our_key(Keypair(name), crypto.out)
       IN  crypto' = [crypto EXCEPT !.fn = "decrypt_envelope_with_our_key",
                                    !.arg = crypto.out, !.out = r.out,
                                    !.raised = r.raised, !.keypair = name,
                                    !.source = r.source]
    /\ UNCHANGED messageFrame

\* ------------------------------------ swarm resolution and the store path
\* The tasks that call into the session at the same time.
Callers == {1, 2}
Snodes == 1..NumSnodes
\* What the seeds report (snodes.py:192-206): a non-empty list of snodes.
SeedPools == { 1..k : k \in 1..NumSnodes }
\* The swarms a snode may report for an id (swarms.py:82-99).
Swarms == {"swarm", "swarm2"}
\* The ways `await do_snode_batch_request` ends in get_swarms_for:
\*   "swarm"        body.snodes is non-empty                       (swarms.py:90-99)
\*   "421"          no snodes, code 421                            (swarms.py:86-87)
\*   "empty"        empty results, or no snodes and another code   (swarms.py:78-79, 88)
\*   "client_error" aiohttp.ClientError (connection refused, reset, ...)
\*   "timeout"      asyncio.TimeoutError: ClientTimeout(total=10)  (snode_batch.py:61)
\*   "http_status"  Exception("Batch request failed")              (snode_batch.py:63-64)
\*   "malformed"    results[0] is no object: AttributeError        (swarms.py:81-82)
BatchOutcomes == {"swarm", "421", "empty", "client_error", "timeout", "http_status",
                  "malformed"}
\* swarms.py:101: the failures `except (SessionFetchError, aiohttp.ClientError)` takes.
Retriable == {"421", "empty", "client_error"}
\* swarms.py:28: the default of max_attempts, which every caller uses.
max_attempts == 3
\* store_message.py:28: `for _ in range(5)`.
store_attempts == 5
\* The ways `await self.network.on_request(req)` ends (aiohttp_backend.py:30-105):
\* a Response with status 200 or another status, SessionFetchError(SNODE_ERROR)
\* for an error body or an aiohttp.ClientError, SessionFetchError(TIMEOUT).
RequestOutcomes == {"200", "status", "client_error", "timeout"}
\* The hash a snode puts in its answer to a store request.
StoreHashes == {"hashA", "hashB"}
\* store_message.py:52: what _store_message returns on status 200.
hash_from_response(response_hash) == "hash_from_response"

\* The locals of one call: of send_message / _store_message (swarms, swarm,
\* stores: the turns of the store loop begun), of poll, and of the
\* get_swarms_for it runs (the list held as available_snodes, its length when
\* get_snodes returned, attempt, snode, last: the way the last attempt ended,
\* requests: the batch requests issued, answered_421: the snodes that said
\* 421).  Of a call that is over the record keeps what the caller sees
\* (raised, message_hash), what the last answers were (last, swarm,
\* answer, response_hash), whether get_snodes returned an empty list
\* (no_pool) and whether the call issued any transport request (contacted).
\* Of a call of get_snodes: the seed being asked (seed), the seeds asked so
\* far (asked), the service_node_states of the last answer and the list
\* returned.
IdleCall ==
    [pc |-> "idle", op |-> "none", for_self |-> FALSE,
     pool_alias |-> FALSE, pool |-> {}, pool0 |-> 0, attempt |-> 0, snode |-> 0,
     requests |-> 0, last |-> "none", answered_421 |-> {},
     swarms |-> {}, swarm |-> "none", stores |-> 0, answer |-> "none",
     response_hash |-> "none", no_pool |-> FALSE, contacted |-> FALSE,
     done |-> FALSE, raised |-> "none", message_hash |-> "none",
     seed |-> 0, asked |-> <<>>, service_node_states |-> {}, returned |-> None]

\* The locals are gone when get_swarms_for has returned or raised.
resolver_left(rec) ==
    [rec EXCEPT !.pool_alias = FALSE, !.pool = {}, !.pool0 = 0, !.attempt = 0,
                !.snode = 0, !.requests = 0, !.answered_421 = {}, !.last = "none"]

ResolverInit ==
    /\ snodes = None
    /\ our_swarms = None
    /\ calls = [c \in Callers |-> IdleCall]

FileStorageInit == unsaved = {}

\* The call ends: the exception leaves get_swarms_for / _store_message /
\* send_message / poll, none of which catches it.
call_raises(rec, code) ==
    [resolver_left(rec) EXCEPT !.pc = "idle", !.done = TRUE, !.raised = code,
                               !.last = rec.last, !.swarms = {}, !.stores = 0]

call_returns(rec, message_hash) ==
    [resolver_left(rec) EXCEPT !.pc = "idle", !.done = TRUE,
                               !.message_hash = message_hash,
                               !.swarms = {}, !.stores = 0, !.swarm = "none"]

\* swarms.py:102, 109: last_exception.
last_exception(rec) == rec.last

\* The list object get_swarms_for holds as available_snodes: the one in
\* Session.snodes (get_snodes returns self.snodes itself, snodes.py:32), or
\* the list this call fetched, once another call has replaced Session.snodes.
available_snodes(rec, cache) == IF rec.pool_alias THEN cache[1] ELSE rec.pool

\* swarms.py:63 without the removal.
remove_omitted(pool, s) == pool
\* swarms.py:63: available_snodes.remove(snode).
remove(pool, s) == pool \ {s}

\* swarms.py:52 with the test left out.
no_snodes_ignored(pool) == FALSE
\* swarms.py:52: `if not available_snodes`.
no_snodes(pool) == pool = {}

nonResolverVars ==
    <<identityVars, storage, last_call, transport_calls, polling, task, ex, running,
      loop_calls, polls, serverVars, clientVars, unsaved, unitVars>>

\* store_message.py:28-30: the next turn of the store loop picks a swarm of
\* the candidates at random (and a snode of it) and sends the request.
store_next(rec) ==
    { [resolver_left(rec) EXCEPT !.pc = "store", !.swarm = w, !.stores = @ + 1,
                                 !.contacted = TRUE]
      : w \in rec.swarms }

\* swarms.py:57-76 and 114-117: the head of the attempt loop.  The loop ends
\* when range(max_attempts) is used up or no snode is left, and the call
\* raises; otherwise a snode is drawn, taken out of the list and asked.
\* The results are pairs <<locals of the call, Session.snodes>>.
attempt_next(rec, cache) ==
    LET avail == available_snodes(rec, cache)
    IN  IF rec.attempt >= max_attempts \/ avail = {}
        THEN { << call_raises(rec, "SNODE_ERROR"), cache >> }
        ELSE { << [rec EXCEPT !.pc = "batch", !.snode = sn, !.requests = @ + 1,
                              !.contacted = TRUE,
                              !.pool = IF rec.pool_alias THEN {} ELSE remove(avail, sn)],
                  IF rec.pool_alias THEN Some(remove(avail, sn)) ELSE cache >>
               : sn \in avail }

\* swarms.py:51-57: get_snodes has returned the list.
resolve_next(rec, cache) ==
    LET avail == available_snodes(rec, cache)
        r0 == [rec EXCEPT !.pool0 = Cardinality(avail), !.attempt = 0,
                          !.no_pool = (avail = {})]
    IN  IF no_snodes(avail)
        THEN { << call_raises(r0, "EMPTY_USER"), cache >> }
        ELSE attempt_next(r0, cache)

\* get_swarms_for begins (swarms.py:51, snodes.py:26-32): with no list cached
\* the call awaits get_snodes_rpc; otherwise it goes on with the cached list.
resolve_start(rec) ==
    IF snodes = None
    THEN { << [rec EXCEPT !.pc = "snodes", !.contacted = TRUE], snodes >> }
    ELSE resolve_next([rec EXCEPT !.pool_alias = TRUE], snodes)

\* send_message (send_message.py:28-56) down to the first await that
\* suspends: the two checks, then _store_message (store_message.py:21-49),
\* which for a message to ourselves takes the cached our_swarm
\* (swarms.py:124-128) and otherwise resolves the swarm of the destination.
CallSend(c, to) ==
    /\ calls[c].pc = "idle"
    /\ LET rec0 == [IdleCall EXCEPT !.op = "send"]
       IN  IF session_id = None \/ keypair = None
           THEN /\ calls' = [calls EXCEPT ![c] = call_raises(rec0, "EMPTY_USER")]
                /\ UNCHANGED snodes
           ELSE IF ~ valid_recipient(to)
           THEN /\ calls' = [calls EXCEPT
                                ![c] = call_raises(rec0, "INVALID_SESSION_ID")]
                /\ UNCHANGED snodes
           ELSE IF to = session_id /\ our_swarm # None
           THEN /\ \E r \in store_next([rec0 EXCEPT !.for_self = TRUE,
                                                    !.swarms = {our_swarm[1]}]) :
                      calls' = [calls EXCEPT ![c] = r]
                /\ UNCHANGED snodes
           ELSE \E p \in resolve_start([rec0 EXCEPT !.for_self = (to = session_id)]) :
                    /\ calls' = [calls EXCEPT ![c] = p[1]]
                    /\ snodes' = p[2]
    /\ UNCHANGED <<nonResolverVars, our_swarm, our_swarms>>

\* Poller.poll (poller.py:94-141) as far as the swarm goes: the key pair
\* check, get_our_swarm, and the batch request to a snode of our swarm.
CallPoll(c) ==
    /\ calls[c].pc = "idle"
    /\ LET rec0 == [IdleCall EXCEPT !.op = "poll", !.for_self = TRUE]
       IN  IF keypair = None \/ session_id = None
           THEN /\ calls' = [calls EXCEPT ![c] = call_raises(rec0, "EMPTY_USER")]
                /\ UNCHANGED snodes
           ELSE IF our_swarm # None
           THEN /\ calls' = [calls EXCEPT ![c] = [rec0 EXCEPT !.pc = "poll_batch",
                                                             !.swarm = our_swarm[1],
                                                             !.contacted = TRUE]]
                /\ UNCHANGED snodes
           ELSE \E p \in resolve_start(rec0) :
                    /\ calls' = [calls EXCEPT ![c] = p[1]]
                    /\ snodes' = p[2]
    /\ UNCHANGED <<nonResolverVars, our_swarm, our_swarms>>

\* get_snodes_rpc ends (snodes.py:138-216, 29): every seed failed and it
\* raises, or a seed reported `pool`, which becomes Session.snodes.  A call
\* that was working on the list Session.snodes held until now keeps that list.
SnodesFetched(c, failed, pool) ==
    /\ calls[c].pc = "snodes"
    /\ IF failed
       THEN /\ calls' = [calls EXCEPT ![c] = call_raises([@ EXCEPT !.last = "seeds"],
                                                         "SNODE_ERROR")]
            /\ UNCHANGED snodes
       ELSE LET base == [d \in Callers |->
                            IF d # c /\ calls[d].pool_alias
                            THEN [calls[d] EXCEPT !.pool_alias = FALSE, !.pool = snodes[1]]
                            ELSE calls[d]]
            IN  \E p \in resolve_next([calls[c] EXCEPT !.pool_alias = TRUE], Some(pool)) :
                    /\ calls' = [base EXCEPT ![c] = p[1]]
                    /\ snodes' = p[2]
    /\ UNCHANGED <<nonResolverVars, our_swarm, our_swarms>>

\* ------------------------------------------------- get_snodes, seed by seed
\* snodes.py:112-131: the bootstrap seeds, in the order of the list.
SEEDS == <<"seed1.getsession.org", "seed2.getsession.org", "seed3.getsession.org">>

\* The ways the request to one seed ends (snodes.py:187-211): an answer with
\* status 200 whose JSON is read, an answer with another status, or an
\* exception (connection error, timeout, a body that is no JSON object, an
\* entry without storage_port, ...), which `except Exception` takes.
SeedOutcomes == {"200", "status", "exception"}

\* Entries of service_node_states: two with an address, one at 0.0.0.0 and
\* one without public_ip.
Entry(snode, public_ip) == [snode |-> snode, public_ip |-> public_ip]
ServiceNodeStates ==
    { {},
      {Entry(3, "0.0.0.0")},
      {Entry(3, "0.0.0.0"), Entry(4, "")},
      {Entry(1, "10.0.0.1"), Entry(3, "0.0.0.0")},
      {Entry(2, "10.0.0.2"), Entry(4, "")},
      {Entry(1, "10.0.0.1"), Entry(2, "10.0.0.2")} }

\* snodes.py:201: the entries get_snodes_rpc keeps.
usable(entry) == entry.public_ip # "" /\ entry.public_ip # "0.0.0.0"

\* snodes.py:193-202: the Snode list built from the answer of a seed.
filtered(snodes_raw) == { entry.snode : entry \in { x \in snodes_raw : usable(x) } }

\* get_snodes_rpc taking whatever list a seed's answer gives.
found_always(snode_list) == TRUE

\* snodes.py:203: `if snodes:`.
found(snode_list) == snode_list # {}

\* get_snodes (snodes.py:26-32) down to its first await that suspends: the
\* cached list is returned, or get_snodes_rpc asks the first seed
\* (snodes.py:160-187).
CallGetSnodes(c) ==
    /\ calls[c].pc = "idle"
    /\ LET rec0 == [IdleCall EXCEPT !.op = "get_snodes"]
       IN  IF snodes = None
           THEN calls' = [calls EXCEPT ![c] = [rec0 EXCEPT !.pc = "seed", !.seed = 1,
                                                          !.asked = <<1>>,
                                                          !.contacted = TRUE]]
           ELSE calls' = [calls EXCEPT ![c] = [rec0 EXCEPT !.done = TRUE,
                                                          !.returned = snodes]]
    /\ UNCHANGED <<nonResolverVars, our_swarm, our_swarms, snodes>>

\* The request to the seed being asked ends (snodes.py:187-216, 29-32).  A
\* non-empty list is put in Session.snodes and returned; otherwise the loop
\* goes to the next seed, and after the last one get_snodes_rpc raises.
SeedAnswered(c, outcome, snodes_raw) ==
    /\ calls[c].pc = "seed"
    /\ outcome # "200" => snodes_raw = {}
    /\ LET rec == [calls[c] EXCEPT !.last = outcome,
                                   !.service_node_states = snodes_raw]
       IN  IF outcome = "200" /\ found(filtered(snodes_raw))
           THEN /\ snodes' = Some(filtered(snodes_raw))
                /\ calls' = [calls EXCEPT
                               ![c] = [rec EXCEPT !.pc = "idle", !.done = TRUE,
                                                  !.seed = 0,
                                                  !.returned = Some(filtered(snodes_raw))]]
           ELSE IF rec.seed < Len(SEEDS)
           THEN /\ calls' = [calls EXCEPT
                               ![c] = [rec EXCEPT !.seed = @ + 1,
                                                  !.asked = Append(@, rec.seed + 1)]]
                /\ UNCHANGED snodes
           ELSE /\ calls' = [calls EXCEPT
                               ![c] = [rec EXCEPT !.pc = "idle", !.done = TRUE,
                                                  !.seed = 0,
                                                  !.raised = "SNODE_ERROR"]]
                /\ UNCHANGED snodes
    /\ UNCHANGED <<nonResolverVars, our_swarm, our_swarms>>

\* `await do_snode_batch_request` ends in get_swarms_for (swarms.py:72-112).
\* A swarm is returned to the caller: get_our_swarm caches it
\* (swarms.py:130-131) and poll() sends its batch, or _store_message starts
\* its loop.  A SessionFetchError or aiohttp.ClientError leads to the sleep
\* before the next attempt (swarms.py:101-107); any other exception ends the
\* loop (swarms.py:108-112).
BatchAnswered(c, outcome, w) ==
    /\ calls[c].pc = "batch"
    /\ LET rec == [calls[c] EXCEPT
                     !.last = outcome,
                     !.answered_421 = IF outcome = "421" THEN @ \cup {calls[c].snode}
                                      ELSE @]
       IN  IF outcome = "swarm"
           THEN /\ IF rec.for_self
                   THEN our_swarms' = Some(<<w>>) /\ our_swarm' = Some(w)
                   ELSE UNCHANGED <<our_swarms, our_swarm>>
                /\ IF rec.op = "poll"
                   THEN calls' = [calls EXCEPT
                                    ![c] = [resolver_left(rec) EXCEPT
                                               !.pc = "poll_batch", !.swarm = w]]
                   ELSE \E r \in store_next([rec EXCEPT !.swarms = {w}]) :
                            calls' = [calls EXCEPT ![c] = r]
           ELSE /\ w = "swarm"
                /\ calls' = [calls EXCEPT
                               ![c] = IF outcome \in Retriable
                                      THEN [rec EXCEPT !.pc = "sleep", !.snode = 0]
                                      ELSE call_raises(rec, "SNODE_ERROR")]
                /\ UNCHANGED <<our_swarms, our_swarm>>
    /\ UNCHANGED <<nonResolverVars, snodes>>

\* asyncio.sleep(retry_delay) is over (swarms.py:107, 57-63).
RetrySleepDone(c) ==
    /\ calls[c].pc = "sleep"
    /\ \E p \in attempt_next([calls[c] EXCEPT !.attempt = @ + 1], snodes) :
          /\ calls' = [calls EXCEPT ![c] = p[1]]
          /\ snodes' = p[2]
    /\ UNCHANGED <<nonResolverVars, our_swarm, our_swarms>>

\* aiohttp_backend.py:96-105: the code of the SessionFetchError on_request
\* raises; store_message.py:55: the one _store_message raises for a status.
fetch_error_code(outcome) == IF outcome = "timeout" THEN "TIMEOUT" ELSE "SNODE_ERROR"

\* `await self.network.on_request(req)` ends in _store_message
\* (store_message.py:48-66, send_message.py:58-62).
StoreAnswered(c, outcome, h) ==
    /\ calls[c].pc = "store"
    /\ LET rec == [calls[c] EXCEPT
                     !.answer = outcome,
                     !.response_hash = IF outcome = "200" THEN h ELSE "none"]
           remaining == rec.swarms \ {rec.swarm}
       IN  IF outcome = "200"
           THEN calls' = [calls EXCEPT ![c] = call_returns(rec, hash_from_response(h))]
           ELSE /\ h = "hashA"
                /\ IF remaining = {}
                   THEN calls' = [calls EXCEPT
                                    ![c] = call_raises(rec, fetch_error_code(outcome))]
                   ELSE IF rec.stores >= store_attempts
                   THEN calls' = [calls EXCEPT ![c] = call_raises(rec, "SNODE_ERROR")]
                   ELSE \E r \in store_next([rec EXCEPT !.swarms = remaining]) :
                            calls' = [calls EXCEPT ![c] = r]
    /\ UNCHANGED <<nonResolverVars, snodes, our_swarm, our_swarms>>

\* `await do_snode_batch_request` ends in poll() (poller.py:137-141): the
\* sub-responses arrive, or the exception leaves poll().
PollAnswered(c, outcome) ==
    /\ calls[c].pc = "poll_batch"
    /\ LET rec == [calls[c] EXCEPT !.answer = outcome]
       IN  calls' = [calls EXCEPT
                       ![c] = IF outcome = "ok"
                              THEN call_returns(rec, "none")
                              ELSE call_raises(rec, "Exception")]
    /\ UNCHANGED <<nonResolverVars, snodes, our_swarm, our_swarms>>

\* ------------------------------------------------ polling.Poller (standalone)
TaskIds == 1..MaxTasks
NoTask == 0

\* All variables but sp.
standaloneFrame ==
    <<identityVars, storage, last_call, transport_calls, pollerVars, serverVars,
      clientVars, resolverVars, unsaved, kv, crypto, cp>>

\* Poller.__init__ (poller.py:22-26).  A loop task is "none" (not created),
\* "created", "poll" (in `await self.poll()`), "sleep", "cancelling"
\* (cancel() was called, CancelledError not yet delivered), "done" or
\* "failed" (ended by an exception).
StandaloneInit ==
    sp = [running |-> FALSE, task |-> NoTask, loops |-> [t \in TaskIds |-> "none"],
          stops |-> <<>>, raised |-> FALSE]

\* A loop task that can still poll.
alive(pc) == pc \in {"created", "poll", "sleep"}

\* Poller.start_polling (poller.py:28-33): no await, the call runs at once.
StartPolling ==
    /\ IF sp.running
       THEN sp' = [sp EXCEPT !.raised = FALSE]
       ELSE \E t \in TaskIds :
               /\ sp.loops[t] = "none"
               /\ \A u \in TaskIds : u < t => sp.loops[u] # "none"
               /\ sp' = [sp EXCEPT !.running = TRUE, !.task = t,
                                   !.loops[t] = "created", !.raised = FALSE]
    /\ UNCHANGED standaloneFrame

\* Task.cancel (poller.py:39): a task that has ended is left alone; any other
\* gets CancelledError at its await the next time the event loop runs it.
task_cancel(pc) == IF alive(pc) THEN "cancelling" ELSE pc

\* Poller.stop_polling (poller.py:35-41) down to `await self._task`.  With no
\* task the call returns; awaiting a task that has ended returns at once
\* (39-44) or raises the exception the task ended with (41); otherwise the
\* call is suspended until the task has ended.
StopPolling ==
    /\ IF sp.task = NoTask
       THEN sp' = [sp EXCEPT !.running = FALSE, !.raised = FALSE]
       ELSE LET t == sp.task
                pc == task_cancel(sp.loops[t])
            IN  IF pc = "done"
                THEN sp' = [sp EXCEPT !.running = FALSE, !.task = NoTask, !.raised = FALSE]
                ELSE IF pc = "failed"
                THEN sp' = [sp EXCEPT !.running = FALSE, !.raised = TRUE]
                ELSE /\ Len(sp.stops) < MaxStops
                     /\ sp' = [sp EXCEPT !.running = FALSE, !.loops[t] = pc,
                                         !.stops = Append(@, t), !.raised = FALSE]
    /\ UNCHANGED standaloneFrame

\* A cancelled loop task is run: CancelledError is raised at its await and
\* _poll_loop catches it and returns (poller.py:56-57); a task cancelled
\* before its first run ends without running.
TaskCancelled(t) ==
    /\ sp.loops[t] = "cancelling"
    /\ sp' = [sp EXCEPT !.loops[t] = "done"]
    /\ UNCHANGED standaloneFrame

\* stop_polling resumes when the task it awaits has ended (poller.py:41-44).
StopResume(k) ==
    /\ k \in 1..Len(sp.stops)
    /\ sp.loops[sp.stops[k]] = "done"
    /\ sp' = [sp EXCEPT !.task = NoTask,
                        !.stops = SubSeq(@, 1, k - 1) \o SubSeq(@, k + 1, Len(@))]
    /\ UNCHANGED standaloneFrame

\* _poll_loop is run for the first time or wakes from its sleep
\* (poller.py:53-55): it tests _running and calls poll(), or returns.
LoopRun(t) ==
    /\ sp.loops[t] \in {"created", "sleep"}
    /\ sp' = [sp EXCEPT !.loops[t] = IF sp.running THEN "poll" ELSE "done"]
    /\ UNCHANGED standaloneFrame

\* poller.py:52-57: _poll_loop catches CancelledError only, so an exception
\* of poll() ends the task.
poll_raised == "failed"

\* `await self.poll()` ends in the loop task (poller.py:54, 46-48):
\* fetch_messages returned or raised.
PollDone(t, outcome) ==
    /\ sp.loops[t] = "poll"
    /\ sp' = [sp EXCEPT !.loops[t] = IF outcome = "ok" THEN "sleep" ELSE poll_raised]
    /\ UNCHANGED standaloneFrame

StandaloneNext ==
    \/ StartPolling
    \/ StopPolling
    \/ \E t \in TaskIds : TaskCancelled(t)
    \/ \E k \in 1..MaxStops : StopResume(k)
    \/ \E t \in TaskIds : LoopRun(t)
    \/ \E t \in TaskIds, o \in {"ok", "raise"} : PollDone(t, o)

\* ------------------------------- the pollers of a session_py_client.Session
\* The Poller objects the application attaches.
PollerObjects == {"p1", "p2"}

\* All variables but cp.
attachedFrame ==
    <<identityVars, storage, last_call, transport_calls, pollerVars, serverVars,
      clientVars, resolverVars, unsaved, kv, crypto, sp>>

\* session.py:35: Session.pollers; loops: the tasks created by add_poller,
\* in order, each with its poller and where it stands.
AttachedInit == cp = [pollers |-> {}, loops |-> <<>>]

\* Session.add_poller (session.py:126-130).
AddPoller(poller) ==
    /\ Len(cp.loops) < MaxTasks
    /\ cp' = [cp EXCEPT !.pollers = @ \cup {poller},
                        !.loops = Append(@, [poller |-> poller, pc |-> "created",
                                              emitted |-> FALSE])]
    /\ UNCHANGED attachedFrame

\* Session._poll_loop (session.py:135-136): the task calls poller.poll().
AttachedLoopRun(k) ==
    /\ k \in 1..Len(cp.loops)
    /\ cp.loops[k].pc \in {"created", "sleep"}
    /\ cp' = [cp EXCEPT !.loops[k].pc = "poll"]
    /\ UNCHANGED attachedFrame

\* Session._poll_loop (session.py:136-139): poll() returned messages, which
\* are emitted, or none, and the task sleeps; or poll() raised, and the
\* exception ends the task (the loop has no try).
AttachedPollDone(k, outcome) ==
    /\ k \in 1..Len(cp.loops)
    /\ cp.loops[k].pc = "poll"
    /\ cp' = [cp EXCEPT !.loops[k] =
                 IF outcome = "raise" THEN [@ EXCEPT !.pc = "failed", !.emitted = FALSE]
                 ELSE [@ EXCEPT !.pc = "sleep", !.emitted = (outcome = "messages")]]
    /\ UNCHANGED attachedFrame

AttachedNext ==
    \/ \E p \in PollerObjects : AddPoller(p)
    \/ \E k \in 1..MaxTasks : AttachedLoopRun(k)
    \/ \E k \in 1..MaxTasks, o \in {"messages", "empty", "raise"} : AttachedPollDone(k, o)

\* ------------------------------------------------------------ specifications
Init ==
    /\ SessionInit /\ PollerInit /\ ClientInit /\ ResolverInit /\ FileStorageInit
    /\ UnitStorageInit /\ MessageInit /\ StandaloneInit /\ AttachedInit

Next ==
    \/ \E m \in Mnemonics : SetMnemonic(m)
    \/ \E o \in StorageOutcomes : SetMnemonicResume(o)
    \/ \E to \in Recipients, o \in {"ok", "fail"} : SendMessage(to, o)

Spec == Init /\ [][Next]_vars

\* Tasks that call set_mnemonic on one session without waiting for each other.
OverlapNext ==
    \/ \E m \in OverlapMnemonics : SetMnemonic(m)
    \/ \E m \in OverlapMnemonics : SetMnemonicOverlap(m)
    \/ \E k \in 1..MaxOverlap, o \in StorageOutcomes : SetMnemonicResumeAny(k, o)

SpecOverlap == Init /\ [][OverlapNext]_vars

SpecStandalone == Init /\ [][StandaloneNext]_vars

SpecAttached == Init /\ [][AttachedNext]_vars

ClientNext ==
    \/ \E s \in ClientSessions, m \in ClientMnemonics, rx \in Entropy, re \in Entropy :
          ClientSetMnemonic(s, m, rx, re)
    \/ \E s \in ClientSessions, to \in ClientRecipients : ClientSendMessage(s, to)

SpecClient == Init /\ [][ClientNext]_vars

\* A session with a poller attached, the swarm and the application's calls.
PollerMnemonics == { Repeat(1337, 13) }
StoreOutcomes == {"ok", "suspend", "raise"}

PollerNext ==
    \/ \E m \in PollerMnemonics : SetMnemonic(m)
    \/ \E o \in StorageOutcomes : SetMnemonicResume(o)
    \/ \E n \in StoreNamespaces, k \in MsgKinds : ServerStore(n, k)
    \/ Start
    \/ Stop
    \/ LoopWake
    \/ \E e \in Executors, o \in {"ok", "fail"} : SwarmResolved(e, o)
    \/ \E e \in Executors, o \in {"ok", "fail"},
          bad \in StoreNamespaces \cup {NoNamespace} : BatchServe(e, o, bad)
    \/ \E e \in Executors : BatchReceive(e)
    \/ \E e \in Executors, r \in 0..NumCallbacks : ProcessMessage(e, r)
    \/ \E e \in Executors, o \in StoreOutcomes : Persist(e, o)
    \/ \E e \in Executors : WriteResume(e)
    \/ \E e \in Executors, r \in 0..MaxMsgs : Emit(e, r)

SpecPoller == Init /\ [][PollerNext]_vars

\* The same with the session's storage a FileStorage: set never suspends and
\* never raises (file.py:53-83), and the file may fail to be written.
FileOutcomes == {"ok", "io_error"}

FilePollerNext ==
    \/ \E m \in PollerMnemonics : SetMnemonic(m)
    \/ SetMnemonicResume("ok")
    \/ \E n \in StoreNamespaces, k \in MsgKinds : ServerStore(n, k)
    \/ Start
    \/ Stop
    \/ LoopWake
    \/ \E e \in Executors, o \in {"ok", "fail"} : SwarmResolved(e, o)
    \/ \E e \in Executors, o \in {"ok", "fail"},
          bad \in StoreNamespaces \cup {NoNamespace} : BatchServe(e, o, bad)
    \/ \E e \in Executors : BatchReceive(e)
    \/ \E e \in Executors, r \in 0..NumCallbacks : ProcessMessage(e, r)
    \/ \E e \in Executors, o \in FileOutcomes : Persist(e, o)
    \/ \E e \in Executors, r \in 0..MaxMsgs : Emit(e, r)

SpecFilePoller == Init /\ [][FilePollerNext]_vars

\* The same, with the application also awaiting poll() itself while the
\* polling task runs.
PollsNext ==
    \/ PollerNext
    \/ ManualPoll

SpecPolls == Init /\ [][PollsNext]_vars

\* A session, once set_mnemonic is over, and one task that sends messages
\* (to others, to the session itself) and polls, one call after the other.
SwarmRecipients == { GoodRecipient, <<"b">> }

SwarmNext ==
    \/ \E m \in PollerMnemonics : SetMnemonic(m)
    \/ SetMnemonicResume("ok")
    \/ \E to \in SwarmRecipients \cup {session_id} : sm_task = None /\ CallSend(1, to)
    \/ sm_task = None /\ CallPoll(1)
    \/ \E pool \in SeedPools, failed \in BOOLEAN : SnodesFetched(1, failed, pool)
    \/ \E o \in BatchOutcomes, w \in Swarms : BatchAnswered(1, o, w)
    \/ RetrySleepDone(1)
    \/ \E o \in RequestOutcomes, h \in StoreHashes : StoreAnswered(1, o, h)
    \/ \E o \in {"ok", "fail"} : PollAnswered(1, o)

SpecSwarm == Init /\ [][SwarmNext]_vars

\* One storage object of any of the classes and the calls made on it.
StorageNext ==
    \/ \E class \in StorageClasses : StorageNew(class)
    \/ \E k \in UnitKeys, v \in StorageValues : StorageSet(k, v)
    \/ \E k \in UnitKeys : StorageDelete(k)
    \/ \E k \in UnitKeys, item \in StorageItems : StorageAppendList(k, item)

SpecStorage == Init /\ [][StorageNext]_vars

\* The padding functions of both packages, called with the messages.
PaddingNext ==
    \/ \E m \in Messages, r \in RandomBytes : AddMessagePadding(m, r)
    \/ \E m \in Messages, r \in RandomBytes : EncryptPad(m, r)
    \/ DecryptStrip
    \/ \E m \in Messages : ClientAddMessagePadding(m)
    \/ ClientRemovePadding
    \/ \E p \in Messages : ClientRemoveAnyPadding(p)

SpecPadding == Init /\ [][PaddingNext]_vars

\* Messages encrypted by one keypair to another and decrypted.
ProtocolNext ==
    \/ \E sender \in KeypairNames, recipient \in KeypairNames, p \in Plaintexts :
          ClientEncrypt(sender, recipient, p)
    \/ \E name \in KeypairNames : ClientDecrypt(name)

SpecProtocol == Init /\ [][ProtocolNext]_vars

\* The event loop resumes a task whose await is over, and the polling task
\* polls again and again (poller.py:81-86) and gets its answers.
SwarmFairness ==
    /\ WF_vars(SetMnemonicResume("ok"))
    /\ WF_vars(\E pool \in SeedPools, failed \in BOOLEAN : SnodesFetched(1, failed, pool))
    /\ WF_vars(\E o \in BatchOutcomes, w \in Swarms : BatchAnswered(1, o, w))
    /\ WF_vars(RetrySleepDone(1))
    /\ WF_vars(\E o \in RequestOutcomes, h \in StoreHashes : StoreAnswered(1, o, h))
    /\ WF_vars(\E o \in {"ok", "fail"} : PollAnswered(1, o))
    /\ SF_vars(sm_task = None /\ CallPoll(1))

SpecSwarmLive == SpecSwarm /\ SwarmFairness

\* Two callers of get_snodes on one session, each request to a seed a step.
DiscoveryNext ==
    \/ \E c \in Callers : CallGetSnodes(c)
    \/ \E c \in Callers, o \in SeedOutcomes, r \in ServiceNodeStates :
          SeedAnswered(c, o, r)

SpecDiscovery == Init /\ [][DiscoveryNext]_vars

\* The same session with two tasks that send messages to others at the
\* same time; snodes answer with a swarm, refuse the connection or time
\* out, and the swarm of the recipient answers the store with a status.
SendsNext ==
    \/ \E m \in PollerMnemonics : SetMnemonic(m)
    \/ SetMnemonicResume("ok")
    \/ \E c \in Callers : sm_task = None /\ CallSend(c, GoodRecipient)
    \/ \E c \in Callers, pool \in SeedPools, failed \in BOOLEAN :
          SnodesFetched(c, failed, pool)
    \/ \E c \in Callers, o \in {"swarm", "client_error", "timeout"} :
          BatchAnswered(c, o, "swarm")
    \/ \E c \in Callers : RetrySleepDone(c)
    \/ \E c \in Callers, o \in {"200", "status"} : StoreAnswered(c, o, "hashA")

SpecSends == Init /\ [][SendsNext]_vars

\* ------------------------------------------------------------------ claims
\* C1: set_mnemonic authorizes a session exactly once: every set_mnemonic
\* call made on a session that already holds a mnemonic fails with
\* AlreadyInitialized (and so leaves key pair, session id and mnemonic as
\* they were).  Stated of the client facade's Session.set_mnemonic.
C1_SecondSetMnemonicAlreadyInitialized ==
    (c_last_call.op = "set_mnemonic" /\ c_last_call.was_authorized)
        => c_last_call.raised = "ALREADY_INITIALIZED"

\* C2: key pair and session id are functions of the mnemonic: two sessions
\* given the same mnemonic hold the same X25519 public key and the same
\* session id.
C2_SameMnemonicSameIdentity ==
    \A s \in ClientSessions, t \in ClientSessions :
        (c_mnemonic[s] # None /\ c_mnemonic[s] = c_mnemonic[t])
            => /\ c_keypair[s][1].x25519.publicKey = c_keypair[t][1].x25519.publicKey
               /\ c_session_id[s] = c_session_id[t]

\* C3: whenever a session holds a key pair, its session id is "05" followed
\* by the lowercase hex of the X25519 public key, 66 characters in all.
C3_SessionIdIs05HexOfX25519 ==
    \A s \in ClientSessions :
        c_keypair[s] # None
            => /\ c_session_id[s] =
                    <<"0", "5">> \o Uint8ArrayToHex(c_keypair[s][1].x25519.publicKey)
               /\ Len(c_session_id[s]) = 66

\* C4: send_message on a session that is not authorized, or to a recipient
\* that is no valid session id, fails at once: an error is raised and no
\* request reaches the transport.
C4_SendRejectedWithoutTransport ==
    (c_last_call.op = "send_message"
        /\ (~ c_last_call.was_authorized \/ ~ valid_recipient(c_last_call.arg)))
        => (c_last_call.raised # "none" /\ c_last_call.sent = 0)

\* The place of hash h in the order the swarm stored the messages of n.
server_position(n, h) == CHOOSE k \in 1..Len(srv_log[n]) : srv_log[n][k] = h

\* C5: the persisted cursor of every namespace only moves forward in the
\* order the server assigned: no write to last_hash_{n} replaces a hash by
\* one the server ordered earlier, over any interleaving of poll() runs.
C5_CursorNeverRewound ==
    [][\A n \in NamespaceSet :
          (storage[last_hash_key(n)] # None
              /\ storage'[last_hash_key(n)] # storage[last_hash_key(n)])
          => server_position(n, storage'[last_hash_key(n)][1])
                 > server_position(n, storage[last_hash_key(n)][1])]_vars

\* The messages of a sub-response that poll() decrypts into data messages.
data_messages(sub_resp) == SelectSeq(sub_resp.messages, LAMBDA h : srv_kind[h] = "data")

\* Run e writes a cursor in this step.
writes_now(e) == ex[e].pc = "process" /\ ex'[e].wrote # ex[e].wrote

\* C6: within one poll iteration the cursor of namespace n is persisted only
\* after every message returned for n has been delivered to the on_message
\* callbacks: when a run writes the cursor of a sub-response, every data
\* message of that sub-response has been passed to every callback registered
\* with Poller.on_message and emitted on Session.on_message.
C6_PersistOnlyAfterDelivery ==
    [][\A e \in Executors :
          writes_now(e) =>
              LET msgs == data_messages(ex[e].resp[ex[e].i])
              IN  \A k \in 1..Len(msgs) :
                     /\ \A c \in Callbacks :
                           \E p \in 1..Len(ex[e].invoked) :
                               ex[e].invoked[p] = <<c, msgs[k]>>
                     /\ \E q \in 1..Len(ex[e].emitted) : ex[e].emitted[q] = msgs[k]]_vars

\* The calls of callback c, in order, with messages of sub-response number idx.
invocations(rec, c, idx) ==
    SelectSeq(rec.invoked,
              LAMBDA p : p[1] = c /\ \E k \in 1..Len(rec.resp[idx].messages) :
                                        rec.resp[idx].messages[k] = p[2])

\* C7: after poll() has handled a batch, for every sub-response with code
\* 200 and a non-empty message list the persisted last_hash_{n} is the hash
\* of the last raw message of the list, and every on_message callback was
\* invoked exactly once per decrypted message, in response order.
C7_CursorIsLastHashAndCallbacksOncePerMessage ==
    \A e \in Executors :
        (ex[e].pc = "process" /\ ex[e].i > Len(namespaces)) =>
            \A idx \in 1..Len(namespaces) :
                (ex[e].resp[idx].code = 200 /\ ex[e].resp[idx].messages # <<>>) =>
                    /\ storage[last_hash_key(namespaces[idx])] =
                          Some(ex[e].resp[idx].messages[Len(ex[e].resp[idx].messages)])
                    /\ \A c \in Callbacks :
                          invocations(ex[e], c, idx) =
                              [k \in 1..Len(data_messages(ex[e].resp[idx])) |->
                                  <<c, data_messages(ex[e].resp[idx])[k]>>]

\* C8: when stop() cancels the polling task while an iteration is in
\* progress (suspended in a transport call, a storage write or the sleep),
\* that iteration has advanced no cursor.
C8_CancelledIterationAdvancesNoCursor ==
    [][(polling /\ task # None /\ ~ polling' /\ ex["loop"].pc # "created")
          => ex["loop"].wrote = {}]_vars

\* C9: after start() followed by stop() the poller issues no further
\* transport call, and the persisted cursors are the hashes last processed:
\* while polling is false the polling task sends no request, a cursor changes
\* only when a run of poll() writes it, and the value written is the hash of
\* the last raw message of a code-200 sub-response whose messages that run
\* has all handled.  (Stated of the session Poller, poller.py:55-86.)
C9_StoppedPollerIsQuiet ==
    [][/\ ~ polling => loop_calls' = loop_calls
       /\ \A e \in Executors :
             writes_now(e) =>
                 LET sub_resp == ex[e].resp[ex[e].i]
                 IN  /\ sub_resp.code = 200
                     /\ ex[e].j = Len(sub_resp.messages)
                     /\ storage'[last_hash_key(namespaces[ex[e].i])]
                            = Some(sub_resp.messages[Len(sub_resp.messages)])
       /\ \A n \in NamespaceSet :
             storage'[last_hash_key(n)] # storage[last_hash_key(n)]
                 => \E e \in Executors : writes_now(e) /\ namespaces[ex[e].i] = n]_vars

\* C9 witness: stop() has ended a polling task that had sent requests and
\* persisted a cursor.
C9_Witness ==
    /\ last_call.op = "stop"
    /\ ~ polling
    /\ loop_calls > 0
    /\ \E n \in NamespaceSet : storage[last_hash_key(n)] # None

\* C10: Poller.start() on a session that is not authorized raises the
\* not-authorized error (EMPTY_USER) and aborts: polling stays false, no task
\* is created and no transport call is made.
C10_StartRefusedWhenUnauthorized ==
    /\ [](/\ ~ is_authorized =>
              (~ polling /\ task = None /\ loop_calls = 0 /\ ex["loop"].pc = "idle")
          /\ (last_call.op = "start" /\ ~ last_call.was_authorized)
                 => last_call.raised = "EMPTY_USER")
    /\ [][(~ is_authorized /\ last_call' # last_call /\ last_call'.op = "start")
             => /\ last_call'.raised = "EMPTY_USER"
                /\ UNCHANGED <<polling, task, ex, transport_calls, loop_calls>>]_vars

\* C10 witness: start() was refused on an unauthorized session.
C10_Witness ==
    /\ last_call.op = "start"
    /\ last_call.raised = "EMPTY_USER"
    /\ ~ is_authorized
    /\ ~ polling

\* C11: within one get_swarms_for call, a snode that answered 421 is not
\* asked again: the snode of every attempt in flight is none of those that
\* answered 421 earlier in the call (so the attempt after a 421 goes to a
\* different snode).
C11_No421SnodeAskedAgain ==
    \A c \in Callers :
        calls[c].pc = "batch" => calls[c].snode \notin calls[c].answered_421

C11_Witness ==
    \E c \in Callers : calls[c].pc = "batch" /\ calls[c].answered_421 # {}

\* C12: get_swarms_for never issues more batch requests than max_attempts nor
\* than the list held snodes when get_snodes returned it; it goes on to
\* another attempt only after a failed one; and when every attempt has failed
\* retriably it has issued exactly min(max_attempts, size of the list)
\* requests and raises SNODE_ERROR quoting the last error.
C12_AttemptsBoundedAndExhausted ==
    [][\A c \in Callers :
          /\ calls[c].requests <= max_attempts
          /\ calls[c].pc \in {"batch", "sleep"} => calls[c].requests <= calls[c].pool0
          /\ calls[c].pc = "sleep" => calls[c].last \in Retriable
          /\ (calls[c].pc = "sleep" /\ calls'[c].pc = "idle")
                => /\ calls[c].requests =
                        (IF calls[c].pool0 < max_attempts THEN calls[c].pool0
                         ELSE max_attempts)
                   /\ calls'[c].raised = "SNODE_ERROR"
                   /\ calls'[c].last = calls[c].last]_vars

\* C13: a swarm-resolution attempt that fails transiently (connection error,
\* timeout, HTTP status other than 200, empty or malformed batch response) is
\* followed by another attempt while attempts and snodes remain: the call
\* ends on such a failure only when the attempts or the snodes are used up.
Transient == {"client_error", "timeout", "http_status", "empty", "malformed"}

C13_TransientFailuresRetried ==
    [][\A c \in Callers :
          (calls[c].pc = "batch" /\ calls'[c].pc = "idle" /\ calls'[c].last \in Transient)
             => \/ calls[c].attempt + 1 >= max_attempts
                \/ available_snodes(calls[c], snodes) = {}]_vars

\* C14: when get_snodes returns an empty list, get_swarms_for raises
\* SessionRuntimeError(EMPTY_USER) and the call has made no transport request.
C14_EmptyPoolRaisesEmptyUser ==
    \A c \in Callers :
        calls[c].no_pool
            => /\ calls[c].pc = "idle"
               /\ calls[c].raised = "EMPTY_USER"
               /\ ~ calls[c].contacted

C14_Witness ==
    \E c \in Callers : calls[c].no_pool /\ calls[c].done /\ snodes = Some({})

\* C15: a send_message call leaves the session's caches as they are: in
\* every step of the call, a snode list, an our_swarms list or an our_swarm
\* that is cached keeps its value, except that a swarm may be invalidated
\* (our_swarm reset, a swarm taken out of our_swarms).
C15_SendLeavesCachesAlone ==
    [][\A c \in Callers :
          (calls'[c].op = "send" /\ calls'[c] # calls[c])
             => /\ snodes # None => snodes' = snodes
                /\ our_swarm # None => our_swarm' \in {our_swarm, None}
                /\ our_swarms # None =>
                      /\ our_swarms' # None
                      /\ \A k \in 1..Len(our_swarms'[1]) :
                            \E l \in 1..Len(our_swarms[1]) :
                                our_swarms'[1][k] = our_swarms[1][l]]_vars

\* C16: in _store_message a store attempt that fails (status other than 200,
\* transport error) takes the swarm it went to out of the candidates and is
\* followed by another attempt while fewer than 5 have been made; the call
\* makes at most 5 attempts, and when it ends without success it raises a
\* SessionFetchError with code SNODE_ERROR.
C16_FailedStoreRetried ==
    [][\A c \in Callers :
          /\ calls[c].stores <= store_attempts
          /\ (calls[c].pc = "store" /\ calls'[c] # calls[c]
                /\ ~ (calls'[c].done /\ calls'[c].raised = "none"))
                => /\ calls[c].swarm \notin calls'[c].swarms
                   /\ calls[c].stores < store_attempts => calls'[c].pc = "store"
                   /\ calls'[c].pc = "idle" => calls'[c].raised = "SNODE_ERROR"]_vars

\* C17: when the store request is answered with status 200, the message
\* hash send_message returns is the hash in the snode's answer.
C17_ReturnsHashOfResponse ==
    \A c \in Callers :
        (calls[c].done /\ calls[c].op = "send" /\ calls[c].raised = "none")
            => calls[c].message_hash = calls[c].response_hash

\* C18: our swarm is reselected on failure: once a request to the cached
\* our_swarm has failed (a poll, or a store to ourselves), the session
\* eventually stops using that swarm: our_swarm is reset or replaced, or a
\* request for our own id goes to another swarm.
failed_on(w) ==
    /\ our_swarm = Some(w)
    /\ \E c \in Callers : /\ calls[c].done /\ calls[c].for_self
                          /\ calls[c].raised # "none" /\ calls[c].swarm = w

reselected(w) ==
    \/ our_swarm # Some(w)
    \/ \E c \in Callers : /\ calls[c].pc \in {"store", "poll_batch"}
                          /\ calls[c].for_self /\ calls[c].swarm # w

C18_FailingOurSwarmReselected ==
    \A w \in Swarms : failed_on(w) ~> reselected(w)

\* C19: a failure to write a cursor last_hash_{n} reaches the caller of the
\* write: in the step in which poll() writes a cursor, if the storage has
\* not saved the value, that run of poll() ends with the error.
C19_CursorWriteErrorPropagates ==
    [][\A e \in Executors :
          (writes_now(e) /\ last_hash_key(namespaces[ex[e].i]) \in unsaved')
             => ex'[e].result = "raised"]_vars

\* C20: a call that ended because a transport request timed out raises a
\* SessionFetchError with code TIMEOUT (never SNODE_ERROR), in swarm
\* resolution as in the store.
C20_TimeoutRaisedAsTimeout ==
    \A c \in Callers :
        (calls[c].done /\ (calls[c].last = "timeout" \/ calls[c].answer = "timeout"))
            => calls[c].raised = "TIMEOUT"

\* The step is a call of `op` on the storage object.
storage_call(op) == kv' # kv /\ kv'.last.op = op

\* C21: the storage classes behave as a key/value map.  A new storage holds
\* nothing; set(k, v) makes get(k) return v and has(k) true; delete(k) makes
\* get(k) return None, has(k) false and get_list(k) empty; append_list(k, x)
\* returns normally, makes get_list(k) the former list with x at the end and
\* leaves the value get(k) returns for the latest set as it was; and no call
\* changes what get, has and get_list return for another key.
C21_StorageIsKeyValueMap ==
    [][LET class == kv'.class
           k == kv'.last.key
           before == kv.data
           after == kv'.data
       IN  /\ storage_call("new") =>
                 \A j \in UnitKeys :
                    /\ storage_get(after, j) = Absent
                    /\ ~ storage_has(after, j)
           /\ storage_call("set") =>
                 /\ storage_get(after, k) = Str(kv'.last.arg)
                 /\ storage_has(after, k)
           /\ storage_call("delete") =>
                 /\ storage_get(after, k) = Absent
                 /\ ~ storage_has(after, k)
                 /\ has_lists(class) => storage_get_list(class, after, k) = List(<<>>)
           /\ storage_call("append_list") =>
                 /\ kv'.last.raised = "none"
                 /\ storage_get_list(class, after, k)
                       = List(Append(storage_get_list(class, before, k).list,
                                     kv'.last.arg))
                 /\ storage_get(before, k).kind = "str"
                       => storage_get(after, k) = storage_get(before, k)
                 /\ storage_has(after, k)
           /\ \A j \in UnitKeys \ {k} :
                 /\ storage_get(after, j) = storage_get(before, j)
                 /\ storage_has(after, j) = storage_has(before, j)]_vars

\* C22: for each of the two padding schemes, removing the padding of a
\* padded message gives the message back, for every message of up to 10 MiB:
\* the length-and-padding framing of session_py's encrypt never fails and
\* decrypt strips it to the message, and remove_message_padding of
\* session_py_client returns the message add_message_padding was given.
C22_PaddingRoundTrip ==
    /\ crypto.fn = "encrypt" => crypto.raised = "none"
    /\ crypto.fn = "decrypt" => crypto.out = crypto.message
    /\ (crypto.fn = "remove_message_padding" /\ crypto.arg # <<>>
           /\ crypto.arg = client_add_message_padding(crypto.message))
          => (crypto.raised = "none" /\ crypto.out = crypto.message)

\* The block size scheme A selects for a message of length l.
block_size(l) ==
    IF l < 128 THEN 16 ELSE IF l < 256 THEN 32 ELSE IF l < 512 THEN 64
    ELSE IF l < 1024 THEN 128 ELSE 256

\* C28: scheme A pads an input of length L to the next multiple of the block
\* size selected by L, adding one full block when L is aligned: the padded
\* message starts with the input, its length is a multiple of the block size,
\* greater than L and at most L plus one block.
C28_SchemeAPadsToBlock ==
    crypto.fn = "add_message_padding" =>
        LET l == len(crypto.arg)
        IN  /\ take(crypto.out, l) = crypto.arg
            /\ len(crypto.out) % block_size(l) = 0
            /\ len(crypto.out) > l
            /\ len(crypto.out) <= l + block_size(l)

\* C29: scheme B appends 0x80 and then zero bytes so that the total padded
\* length is a multiple of 160.
C29_SchemeBPadsTo160 ==
    crypto.fn = "client_add_message_padding" =>
        LET l == len(crypto.arg)
        IN  /\ len(crypto.out) % 160 = 0
            /\ len(crypto.out) > l
            /\ crypto.out = concat(concat(crypto.arg, <<Run(128, 1)>>),
                                   <<Run(0, len(crypto.out) - l - 1)>>)

\* The bytes of x up to its last non-zero byte (x without its final zeros).
RECURSIVE without_zeros(_)
without_zeros(x) ==
    IF x = <<>> THEN <<>>
    ELSE IF x[Len(x)].b = 0 THEN without_zeros(SubSeq(x, 1, Len(x) - 1))
    ELSE x

\* C30: scheme B padding removal requires the first non-zero byte from the
\* end to be 0x80 and returns the bytes before it; an input whose first
\* non-zero byte from the end is not 0x80, or that has no non-zero byte, is
\* rejected with a padding error and not returned.
C30_BadPaddingRejected ==
    crypto.fn = "remove_message_padding" =>
        LET body == without_zeros(crypto.arg)
        IN  IF body # <<>> /\ body[Len(body)].b = 128
            THEN /\ crypto.raised = "none"
                 /\ crypto.out = take(body, len(body) - 1)
            ELSE crypto.raised = "ValueError"

\* C23: for every plaintext p, sender S and recipient R, encrypting p to the
\* hex of R's x25519 public key succeeds, decrypting the ciphertext with R's
\* keys returns exactly p, and the sender identity recovered by decryption
\* (envelope.source) is the hex of S's x25519 public key.
C23_EncryptDecryptRoundTrip ==
    /\ crypto.fn = "client_encrypt" => crypto.raised = "none"
    /\ (crypto.fn = "decrypt_envelope_with_our_key" /\ crypto.keypair = crypto.recipient)
          => /\ crypto.raised = "none"
             /\ crypto.out = crypto.message
             /\ crypto.source = Uint8ArrayToHex(Keypair(crypto.sender).x25519.publicKey)

\* C24: a sub-response whose code is not 200 leaves the cursor of its
\* namespace alone and delivers no message of that namespace, while the other
\* namespaces of the batch are still processed: a run of poll() writes no
\* cursor for such a sub-response and passes none of its messages on, and
\* once the run is through the batch it has written the cursor and kept the
\* data messages of every code-200 sub-response that carries messages.
C24_FailedSubResponseSkipped ==
    \A e \in Executors :
        ex[e].pc \in {"process", "write"} =>
            \A idx \in 1..Len(namespaces) :
                LET sub_resp == ex[e].resp[idx]
                    kept == ex[e].decrypted_messages \o ex[e].all_messages
                IN  /\ sub_resp.code # 200 =>
                          /\ namespaces[idx] \notin ex[e].wrote
                          /\ \A k \in 1..Len(sub_resp.messages) :
                                /\ \A q \in 1..Len(kept) : kept[q] # sub_resp.messages[k]
                                /\ \A q \in 1..Len(ex[e].invoked) :
                                      ex[e].invoked[q][2] # sub_resp.messages[k]
                    /\ (ex[e].pc = "process" /\ ex[e].i > Len(namespaces)
                          /\ sub_resp.code = 200 /\ sub_resp.messages # <<>>) =>
                          /\ namespaces[idx] \in ex[e].wrote
                          /\ \A k \in 1..Len(data_messages(sub_resp)) :
                                \E q \in 1..Len(ex[e].all_messages) :
                                    ex[e].all_messages[q] = data_messages(sub_resp)[k]

\* C24 witness: a run is through a batch in which one sub-response failed
\* with messages waiting in its namespace and another was processed.
C24_Witness ==
    \E e \in Executors :
        /\ ex[e].pc = "process"
        /\ ex[e].i > Len(namespaces)
        /\ ex[e].wrote # {}
        /\ ex[e].all_messages # <<>>
        /\ \E idx \in 1..Len(namespaces) :
              ex[e].resp[idx].code # 200 /\ ex[e].resp[idx].messages # <<>>

\* The messages run e has gone through in the sub-response it is handling.
handled(e) == SubSeq(ex[e].resp[ex[e].i].messages, 1, ex[e].j)

\* C25: a message that fails to decrypt during a poll is dropped alone: the
\* run goes on with the next message, the messages that do decrypt are kept
\* for the result and passed to the callbacks whatever failed before them,
\* and the cursor the run writes for the namespace is the hash of the last
\* raw message, so that the next retrieve returns none of the messages of
\* this sub-response, the bad ones included.
C25_DecryptFailureDropsOneMessage ==
    [][\A e \in Executors :
          (ex[e].pc = "process" /\ ex[e].i <= Len(namespaces)) =>
              LET sub_resp == ex[e].resp[ex[e].i]
                  n == namespaces[ex[e].i]
                  good == SelectSeq(handled(e), LAMBDA h : srv_kind[h] = "data")
              IN  /\ ex[e].decrypted_messages = good
                  /\ \A k \in 1..Len(good) :
                        \E q \in 1..Len(ex[e].invoked) : ex[e].invoked[q] = <<1, good[k]>>
                  /\ (/\ ex'[e].j = ex[e].j + 1
                      /\ srv_kind[sub_resp.messages[ex[e].j + 1]] # "data")
                        => /\ ex'[e] = [ex[e] EXCEPT !.j = @ + 1]
                           /\ storage' = storage
                  /\ writes_now(e) =>
                        /\ ex[e].j = Len(sub_resp.messages)
                        /\ storage'[last_hash_key(n)]
                              = Some(sub_resp.messages[Len(sub_resp.messages)])
                        /\ \A k \in 1..Len(sub_resp.messages) :
                              LET again == retrieve(n, storage'[last_hash_key(n)])
                              IN  \A q \in 1..Len(again) : again[q] # sub_resp.messages[k]]_vars

\* C25 witness: a run has written the cursor of a namespace whose
\* sub-response held a message that failed to decrypt and one that did not,
\* and the cursor in storage is at or past the bad message.
C25_Witness ==
    \E e \in Executors, idx \in 1..Len(namespaces) :
        /\ ex[e].pc = "process"
        /\ ex[e].i > idx
        /\ namespaces[idx] \in ex[e].wrote
        /\ \E k, q \in 1..Len(ex[e].resp[idx].messages) :
              /\ srv_kind[ex[e].resp[idx].messages[k]] # "data"
              /\ srv_kind[ex[e].resp[idx].messages[q]] = "data"
              /\ \E a \in 1..Len(ex[e].all_messages) :
                    ex[e].all_messages[a] = ex[e].resp[idx].messages[q]
              /\ storage[last_hash_key(namespaces[idx])] # None
              /\ storage[last_hash_key(namespaces[idx])][1] >= ex[e].resp[idx].messages[k]

\* C26: each poll iteration issues exactly one batch request, which carries
\* one retrieve sub-request per polled namespace whose last_hash is the cursor
\* held in storage for that namespace when the request is built (empty when
\* there is none): a run sends its batch from its start or from the
\* resolution of our swarm and never after it has sent one, the batch is one
\* transport call, and a run gets to the sub-responses only through it.
C26_OneBatchPerIteration ==
    [][\A e \in Executors :
          /\ (ex'[e].pc = "batch" /\ ex[e].pc # "batch") =>
                /\ ex[e].pc \in {"idle", "created", "sleep", "swarm"}
                /\ transport_calls' = transport_calls + 1
                /\ Len(ex'[e].req) = Len(namespaces)
                /\ \A i \in 1..Len(namespaces) :
                      ex'[e].req[i] = storage[last_hash_key(namespaces[i])]
          /\ ex[e].pc \in {"batch", "reply", "error", "process", "write"} =>
                /\ ex'[e].pc \notin {"batch", "swarm"} \/ ex[e].pc = "batch"
                /\ transport_calls' # transport_calls =>
                      \E o \in Executors \ {e} : ex'[o].pc # ex[o].pc
                /\ ex'[e].pc \notin {"idle", "sleep"} => ex'[e].req = ex[e].req
          /\ (ex'[e].pc = "reply" /\ ex[e].pc # "reply") => ex[e].pc = "batch"
          /\ (ex'[e].pc = "process" /\ ex[e].pc \notin {"process", "write"})
                => ex[e].pc = "reply"]_vars

\* C26 witness: a batch is in flight that carries a cursor read from storage.
C26_Witness ==
    \E e \in Executors :
        /\ ex[e].pc = "batch"
        /\ \E i \in 1..Len(namespaces) :
              ex[e].req[i] # None /\ ex[e].req[i] = storage[last_hash_key(namespaces[i])]

\* C27: discovery asks the seeds one after another in the order of the list:
\* a call asks seed 1 first and only with no list cached, asks seed i+1 only
\* when the request to seed i failed or gave no usable entry, caches and
\* returns the first non-empty filtered list without asking another seed, and
\* raises SNODE_ERROR, leaving Session.snodes as it was (unset, unless another
\* call has set it meanwhile), only when the last seed has failed too.
C27_SeedsAskedInOrder ==
    [][\A c \in Callers :
          LET rec == calls[c]
              new == calls'[c]
              list == { x.snode : x \in { y \in new.service_node_states :
                                             y.public_ip \notin {"", "0.0.0.0"} } }
              gave == new.last = "200" /\ list # {}
          IN  /\ rec.asked = [k \in 1..Len(rec.asked) |-> k]
              /\ Len(rec.asked) <= 3
              /\ rec.pc = "seed" => rec.seed = Len(rec.asked) /\ rec.seed >= 1
              /\ (rec.pc = "idle" /\ new # rec) =>
                    IF snodes = None
                    THEN new.pc = "seed" /\ new.asked = <<1>> /\ snodes' = None
                    ELSE /\ new.pc = "idle" /\ new.asked = <<>>
                         /\ new.returned = snodes /\ snodes' = snodes
              /\ (rec.pc = "seed" /\ new # rec) =>
                    IF gave
                    THEN /\ new.pc = "idle" /\ new.raised = "none"
                         /\ new.asked = rec.asked
                         /\ new.returned = Some(list)
                         /\ snodes' = Some(list)
                    ELSE /\ snodes' = snodes
                         /\ new.returned = None
                         /\ IF rec.seed < 3
                            THEN /\ new.pc = "seed" /\ new.raised = "none"
                                 /\ new.asked = Append(rec.asked, rec.seed + 1)
                            ELSE /\ new.pc = "idle" /\ new.raised = "SNODE_ERROR"
                                 /\ new.asked = <<1, 2, 3>>]_vars

\* C27 witness: one call was answered by the second seed after the first
\* gave entries without a usable address, and the list is cached; the other
\* call has asked all three seeds and raised.
C27_Witness ==
    \E c, d \in Callers :
        /\ calls[c].done /\ calls[c].asked = <<1, 2>>
        /\ calls[c].returned # None /\ calls[c].returned = snodes
        /\ calls[d].done /\ calls[d].raised = "SNODE_ERROR"
        /\ calls[d].asked = <<1, 2, 3>>

\* ------------------------------------------------- the mnemonic functions
\* The packages with a mnemonic module: session_py.crypto.mnemonic and
\* session_py_client.mnemonic.
MnemonicPackages == {"session_py", "client"}

\* Word indices at both ends of the list.
BoundaryWords == {0, 1, 1623, 1624, 1625}

\* The twelve words the random generator may pick: a first group of boundary
\* words and nine more words.
ChosenWords == { <<w1, w2, w3>> \o Repeat(7, 9) : w1, w2, w3 \in BoundaryWords }

\* _get_checksum_index (mnemonic.py:40-44, client mnemonic.py:32-36):
\* crc32 of the word prefixes modulo the number of words; digest stands in
\* for crc32.
get_checksum_index(words) == digest(words) % Len(words)

\* session_py generate_mnemonic (crypto/mnemonic.py:139-156): the checksum
\* word is words[checksum_index], a word of the list itself.
generate_mnemonic(random_words) == random_words \o <<get_checksum_index(random_words)>>

\* session_py_client generate_mnemonic (mnemonic.py:80-91): the checksum
\* word is the first word of the list with the prefix of chosen[index].
client_generate_mnemonic(chosen) == chosen \o <<chosen[get_checksum_index(chosen) + 1]>>

\* session_py_client decode_mnemonic (mnemonic.py:39-77) raises ValueError:
\* a word count it refuses (44-49), a word that is not in the list (60-62),
\* a group whose value needs more than 8 hex digits (69, _swap_endian_4byte),
\* or a checksum word that does not match (70-74).
client_decode_raises(wlist0) ==
    \/ Len(wlist0) < 12
    \/ Len(wlist0) % 3 # 1
    \/ LET wlist == SubSeq(wlist0, 1, Len(wlist0) - 1)
           checksum_word == wlist0[Len(wlist0)]
       IN  \/ \E i \in 1..Len(wlist) : wlist[i] = UnknownWord
           \/ \E g \in 0..((Len(wlist) \div 3) - 1) :
                 group_overflows(group_value(wlist[3*g+1], wlist[3*g+2], wlist[3*g+3]))
           \/ wlist[get_checksum_index(wlist) + 1] # checksum_word

\* session_py_client decode_mnemonic: the decoded bytes.
client_decode_mnemonic(wlist0) == decode_groups(SubSeq(wlist0, 1, Len(wlist0) - 1))

\* decode_mnemonic of a package called with a phrase.
decode_call(package, fn, wlist0) ==
    LET raises == IF package = "client" THEN client_decode_raises(wlist0)
                  ELSE decode_raises(wlist0)
    IN  [fn |-> fn, package |-> package, mnemonic |-> wlist0,
         out |-> IF raises THEN <<>>
                 ELSE IF package = "client" THEN client_decode_mnemonic(wlist0)
                 ELSE decode_mnemonic(wlist0),
         raised |-> IF raises THEN "ValueError" ELSE "none"]

\* generate_mnemonic() of a package is called; the generator picks `chosen`.
GenerateMnemonic(package, chosen) ==
    /\ crypto' = [fn |-> "generate_mnemonic", package |-> package, mnemonic |-> chosen,
                  out |-> IF package = "client" THEN client_generate_mnemonic(chosen)
                          ELSE generate_mnemonic(chosen),
                  raised |-> "none"]
    /\ UNCHANGED messageFrame

\* decode_mnemonic of the same package is called with the phrase just
\* generated.
DecodeGenerated ==
    /\ crypto.fn = "generate_mnemonic"
    /\ crypto' = decode_call(crypto.package, "decode_generated", crypto.out)
    /\ UNCHANGED messageFrame

\* decode_mnemonic is called with a phrase of known words that carries the
\* checksum word of the scheme.
DecodeMnemonic(package, chosen) ==
    /\ crypto' = decode_call(package, "decode_mnemonic", client_generate_mnemonic(chosen))
    /\ UNCHANGED messageFrame

MnemonicNext ==
    \/ \E p \in MnemonicPackages, ch \in ChosenWords : GenerateMnemonic(p, ch)
    \/ DecodeGenerated
    \/ \E p \in MnemonicPackages, ch \in ChosenWords : DecodeMnemonic(p, ch)

SpecMnemonic == Init /\ [][MnemonicNext]_vars

\* C31: for every triple of word indices (w1, w2, w3) below n = 1626 the
\* value x = w1 + n*((n - w1 + w2) mod n) + n^2*((n - w2 + w3) mod n) fits in
\* 32 bits, so it is written as 4 little-endian bytes and decoding succeeds:
\* decode_mnemonic called with a phrase of known words and the right checksum
\* word does not raise, its first group is below 2^32, and the result has
\* 4 bytes per group.
C31_TripleFitsIn32Bits ==
    crypto.fn = "decode_mnemonic" =>
        /\ ~ group_overflows(group_value(crypto.mnemonic[1], crypto.mnemonic[2],
                                         crypto.mnemonic[3]))
        /\ crypto.raised = "none"
        /\ Len(crypto.out) = 4 * ((Len(crypto.mnemonic) - 1) \div 3)

\* C32: every phrase generate_mnemonic produces has 12 random words and a
\* checksum word, and decode_mnemonic accepts it, checksum included: the
\* phrase has 13 words, decoding it does not raise, and its last word is the
\* word the checksum index selects among the first twelve.
C32_GeneratedMnemonicDecodes ==
    /\ crypto.fn = "generate_mnemonic" =>
          /\ Len(crypto.out) = 13
          /\ SubSeq(crypto.out, 1, 12) = crypto.mnemonic
          /\ crypto.out[13] = crypto.mnemonic[get_checksum_index(crypto.mnemonic) + 1]
    /\ crypto.fn = "decode_generated" => crypto.raised = "none"

\* C33: when two set_mnemonic calls on one session overlap, at most one
\* completes successfully and the other fails with ALREADY_INITIALIZED, and
\* the session's key pair is the one of the successful call's mnemonic: a
\* call that returns from its storage write without error does so on a
\* session no call has authorized yet, and leaves the key pair derived from
\* its own mnemonic.
C33_OverlappingSetMnemonic ==
    [][(Len(sm_task') < Len(sm_task) /\ last_call'.raised = "none") =>
          /\ ~ is_authorized
          /\ keypair' = Some(to_keypair(mnemonic_to_seed(last_call'.arg)))]_vars

\* C34: in every state another task can observe, keypair and session_id are
\* present only if is_authorized is true, and a set_mnemonic that fails
\* leaves the session as it was before the call.
C34_KeysOnlyWhenAuthorized ==
    [][/\ (keypair # None \/ session_id # None) => is_authorized
       /\ (last_call' # last_call /\ last_call'.op = "set_mnemonic"
             /\ last_call'.raised # "none") =>
             /\ is_authorized' = is_authorized
             /\ storage' = storage
             /\ IF sm_task' = sm_task
                THEN <<keypair', session_id', mnemonic'>> = <<keypair, session_id, mnemonic>>
                ELSE <<keypair', session_id', mnemonic'>> = sm_task[1].before]_vars

\* C35: once discovery has succeeded get_snodes always returns a non-empty
\* pool: the list cached in Session.snodes is never empty, and no call of
\* get_swarms_for gets an empty list from get_snodes.
C35_CachedPoolNeverEmpty ==
    /\ snodes # None => snodes[1] # {}
    /\ \A c \in Callers : ~ calls[c].no_pool

\* C36: after any sequence of start() and stop() calls of the session
\* Poller at most one polling task that is not cancelled exists, polling is
\* true exactly when such a task exists, and start() while polling creates
\* no second task: polling, the task reference and the life of the loop task
\* agree in every state, and a task is created only when none is alive.
C36_OnePollingTask ==
    [][/\ polling <=> task # None
       /\ polling <=> ex["loop"].pc # "idle"
       /\ (ex'["loop"].pc = "created" /\ ex'["loop"] # ex["loop"]) =>
             /\ ~ polling
             /\ task = None
             /\ ex["loop"].pc = "idle"]_vars

\* C36 witness: a task polled, stop() cancelled it, and start() has created
\* the task that is alive now.
C36_Witness ==
    /\ polling
    /\ task # None
    /\ polls["loop"] >= 1
    /\ ex["loop"].pc = "created"
    /\ last_call.op = "start"

\* C37: for the standalone Poller, under any interleaving of start_polling
\* and stop_polling at most one poll-loop task is alive, and every alive loop
\* task is the one _task refers to.
C37_OneLoopTaskReferenced ==
    /\ Cardinality({ t \in TaskIds : alive(sp.loops[t]) }) <= 1
    /\ \A t \in TaskIds : alive(sp.loops[t]) => sp.task = t

\* C38: an ordinary exception raised by one poll does not end polling: when
\* a poll of the loop task ends while the poller is marked running, whatever
\* way it ends, the task goes on to sleep the interval and to poll again.
C38_PollErrorKeepsPolling ==
    [][\A t \in TaskIds :
          (sp.loops[t] = "poll" /\ sp'.loops[t] # "poll" /\ sp'.running)
             => sp'.loops[t] = "sleep"]_vars

\* C40: each poller attached with add_poller is polled by at most one loop:
\* adding a poller that is already in session.pollers starts no second loop.
C40_OneLoopPerPoller ==
    \A p \in cp.pollers :
        Cardinality({ k \in 1..Len(cp.loops) :
                         cp.loops[k].poller = p /\ cp.loops[k].pc # "failed" }) <= 1

\* C39: every decrypted message a poll() call moves a persisted cursor past
\* is emitted on Session.on_message by that same call: when a run of poll()
\* ends, however it ends, the data messages of every sub-response whose
\* cursor it wrote have been emitted.
C39_CursorPassedMessagesEmitted ==
    [][\A e \in Executors :
          (ex[e].pc \in {"process", "write"} /\ ex'[e].pc \in {"idle", "sleep"}) =>
              \A idx \in 1..Len(namespaces) :
                  namespaces[idx] \in ex[e].wrote =>
                      \A k \in 1..Len(data_messages(ex[e].resp[idx])) :
                          \E q \in 1..Len(ex'[e].emitted) :
                              ex'[e].emitted[q] = data_messages(ex[e].resp[idx])[k]]_vars

====
